---------------------------- MODULE Spec2Model ----------------------------
(***************************************************************************)
(* Verification model of modadv/review-server.                             *)
(*                                                                         *)
(*  - the broadcast hub (servercpp/src/main.cpp): shared_state and         *)
(*    ws_session, one action per completion handler;                       *)
(*  - the client transport (client/MinReview/Network.h):                   *)
(*    WebSocketClientManager, ManagedWebSocketClient and WebSocketClient.  *)
(*                                                                         *)
(* Asynchronous operations are modelled by the number (or the list) of     *)
(* operations outstanding; an action is the completion handler the         *)
(* io_context runs for one of them.                                        *)
(***************************************************************************)
EXTENDS Integers, Sequences, FiniteSets, TLC

\* ------------------------------------------------------------------ bounds
NumSessions == 2        \* ws_session objects the hub may create
MaxMsgs == 2            \* messages handed to deliver() in one run
NumEndpoints == 2       \* (host, port) endpoints known to the client
MaxClients == 2         \* ManagedWebSocketClient objects created in one run
MaxSends == 2           \* messages handed to sendMessage in one run

\* ------------------------------------------------------- program constants
ping_period == 54       \* seconds
ReconnectDelay == 5     \* seconds

Sessions == 1..NumSessions
Endpoints == 1..NumEndpoints
Clients == 1..MaxClients
NoClient == 0
NumHandlers == 2        \* handler functions the application may register
MaxRegs == 3            \* calls of registerHandler in one run
NumUrls == 2            \* URLs submitted to the download coordinator
NumWorkers == 1         \* size of the coordinator's worker pool
MaxSubmits == 3         \* submissions to the coordinator in one run
MaxBody == 3            \* bytes of the resource (body of a full response)
MaxFetches == 3         \* calls of download in one run
MaxElems == 4           \* start tags of one document
MaxTexts == 2           \* character data events of one document
MaxText == 4            \* characters of a text run fed in pieces
NoCapture == -1         \* capture_at before any capture

\* An inbound text frame, by what the JSON decoders can tell of it:
\*   json : "bad" (does not parse), "value" (parses, not an object), "object"
\*   id   : the protocol_id member (0: the member is absent)
\*   data : the data member: "absent", "string" or "object"
FrameIds == 1..3
Frames ==
    {[json |-> "bad",    id |-> 0, data |-> "absent"],
     [json |-> "value",  id |-> 0, data |-> "absent"],
     [json |-> "object", id |-> 0, data |-> "object"],
     [json |-> "object", id |-> 1, data |-> "absent"]}
    \cup [json : {"object"}, id : FrameIds, data : {"string", "object"}]

\* the protocol ids the application registers handlers for, the handlers
ProtocolIds == {1, 2}
Handlers == 1..NumHandlers
NoHandler == 0

VARIABLES
    \* ---- hub (main.cpp)
    phase,          \* ws_session lifecycle: "none", "accepting", "open", "refused"
    link,           \* state of the peer's connection: "up", "closed", "broken"
    sessions_,      \* shared_state::sessions_
    mutex_,         \* shared_state::mutex_: "free" or "broadcast"
    bcast,          \* the broadcast in progress: message and sessions served
    posted,         \* deliver lambdas posted to the session's executor, FIFO
    write_queue_,   \* ws_session::write_queue_
    inflight,       \* buffers of the outstanding async_write operations
    reads,          \* outstanding async_read operations
    ping,           \* per session: pending waits on ping_timer_, async_pings in flight
    ping_delay,     \* the last expiry set on ping_timer_
    nextMsg,        \* next fresh message id
    delivered,      \* history: messages handed to deliver(), in call order
    wire,           \* history: messages whose write completed, in order
    bcastLog,       \* history: finished broadcasts, message -> registry snapshot
    hub_event,      \* the read completion that ran last: [s, res]
    \* ---- client (Network.h)
    connections_,   \* WebSocketClientManager::connections_: endpoint -> object
    created,        \* number of ManagedWebSocketClient objects constructed
    cl,             \* the objects: [ep, link, reads, timers, delay, cb]
    reachable,      \* environment: the endpoint's server accepts connections
    cl_sent,        \* history: messages handed to send()
    cl_wire,        \* history: messages written to the socket
    cl_nextMsg,     \* next fresh outbound message id
    cl_event,       \* the program step that ran last: [op, c, res]
    handlers_,      \* ProtocolHandlerRegistry::handlers_: id -> handler
    reg_log,        \* history: the handlers registered for each id, in order
    \* ---- download coordinator (HTTPDownloader)
    dl_active,      \* the active set: URLs with a job queued or running
    dl_subs,        \* history: the submissions, [url, status, calls]
    \* ---- fetcher (XmlDownload.h)
    fetch,          \* the download() call in progress, or the last one
    resp,           \* the server's response: status, body bytes, what is left
    output_file,    \* content of the local file output_file
    fetches,        \* number of download() calls made
    \* ---- transducer (XmlToJsonHandler.h)
    componentDepth_,    \* depth inside the captured component, 0 outside
    componentCaptured_, \* the first component has been captured completely
    root_,          \* the JSON value of the captured component
    jsonStack_,     \* pointers to the values of the open captured elements
    parse_calls,    \* history: arguments of componentParseCallback_
    json_out,       \* what finalize wrote to the JSON file, <<>> if nothing
    xml_status,     \* "parsing", "error", "finalized" or "failed"
    xml_open,       \* Expat: names of the open elements, outermost first
    xml_elems,      \* number of start tags reported
    xml_texts,      \* number of character data events reported
    xml_event,      \* the event that ran last: [op, name, data]
    capture_at,     \* history: open elements around the captured component
    kids,           \* history: per open captured element, children by name
    \* ---- one text run handed to the transducer in pieces
    chunks          \* [text, pos, h]: the run, the characters fed, the handler

hubVars == <<phase, link, sessions_, mutex_, bcast, posted, write_queue_,
             inflight, reads, ping, ping_delay, nextMsg, delivered, wire,
             bcastLog, hub_event>>
clientVars == <<connections_, created, cl, reachable, cl_sent, cl_wire,
                cl_nextMsg, cl_event, handlers_, reg_log>>
routerVars == <<handlers_, reg_log>>
dlVars == <<dl_active, dl_subs>>
fetchVars == <<fetch, resp, output_file, fetches>>
xmlVars == <<componentDepth_, componentCaptured_, root_, jsonStack_,
             parse_calls, json_out, xml_status, xml_open, xml_elems,
             xml_texts, xml_event, capture_at, kids>>
chunkVars == <<chunks>>
vars == <<hubVars, clientVars, dlVars, fetchVars, xmlVars, chunkVars>>

\* what the hub's handlers never touch, what the client's never touch
notHub == <<clientVars, dlVars, fetchVars, xmlVars, chunkVars>>
notClient == <<hubVars, dlVars, fetchVars, xmlVars, chunkVars>>

\* ---------------------------------------------------------------- helpers
Count(seq, m) == Cardinality({i \in 1..Len(seq) : seq[i] = m})

IsPrefix(a, b) == Len(a) <= Len(b) /\ \A i \in 1..Len(a) : a[i] = b[i]

\* the last element of a sequence
Last(seq) == seq[Len(seq)]

\* the lengths of the sequences f[i], i in S, added up
RECURSIVE TotalLen(_, _)
TotalLen(f, S) ==
    IF S = {} THEN 0
    ELSE LET i == CHOOSE j \in S : TRUE
         IN  Len(f[i]) + TotalLen(f, S \ {i})

\* a is a subsequence of b (order kept, elements of b may be missing)
RECURSIVE IsSubseq(_, _)
IsSubseq(a, b) ==
    IF a = <<>> THEN TRUE
    ELSE IF b = <<>> THEN FALSE
    ELSE IF Head(a) = Head(b) THEN IsSubseq(Tail(a), Tail(b))
    ELSE IsSubseq(a, Tail(b))

\* ================================================================== hub

\* std::lock_guard<std::mutex> lock(mutex_): the handler runs to completion
\* on the io thread, so it can only run when the mutex can be taken.
lock_guard_unlocked == TRUE
lock_guard == mutex_ = "free"

\* shared_state::join: sessions_.insert(session)
join(reg, s) == reg \cup {s}

\* shared_state::leave: sessions_.erase(session)
leave(reg, s) == reg \ {s}

\* ws_session::do_write: async_write(buffer(write_queue_.front()))
do_write(q, ops) == IF q = <<>> THEN ops ELSE Append(ops, Head(q))

\* the lambda ws_session::deliver posts
deliver_lambda_front(q, ops, msg) ==
    LET write_in_progress == q # <<>>
        q2 == <<msg>> \o q
    IN  [queue |-> q2,
         ops   |-> IF ~write_in_progress THEN do_write(q2, ops) ELSE ops]
deliver_lambda_always(q, ops, msg) ==
    LET q2 == Append(q, msg)
    IN  [queue |-> q2, ops |-> do_write(q2, ops)]
deliver_lambda(q, ops, msg) ==
    LET write_in_progress == q # <<>>
        q2 == Append(q, msg)
    IN  [queue |-> q2,
         ops   |-> IF ~write_in_progress THEN do_write(q2, ops) ELSE ops]

\* ws_session::deliver: net::post of the lambda; history records the call
deliver(s, msg) ==
    /\ posted' = [posted EXCEPT ![s] = Append(@, msg)]
    /\ delivered' = [delivered EXCEPT ![s] = Append(@, msg)]

\* ws_session::do_read: one more async_read outstanding
do_read_twice(n) == n + 2
do_read(n) == n + 1

\* the ping loop of a session that has not been accepted
NoPing == [waits |-> 0, pings |-> 0]

\* ws_session::do_ping: expires_after cancels a pending wait on ping_timer_,
\* async_wait arms one
do_ping_idle(p) == p
do_ping(p) == [p EXCEPT !.waits = 1]

\* http_session::handle_request, target /ws: make_shared<ws_session>->start()
start_join(s) ==
    /\ phase[s] = "none"
    /\ \A t \in Sessions : t < s => phase[t] # "none"
    /\ lock_guard
    /\ phase' = [phase EXCEPT ![s] = "accepting"]
    /\ sessions_' = join(sessions_, s)
    /\ UNCHANGED <<notHub, hub_event, link, mutex_, bcast, posted, write_queue_,
                   inflight, reads, ping, ping_delay, nextMsg, delivered,
                   wire, bcastLog>>
start(s) ==
    /\ phase[s] = "none"
    /\ \A t \in Sessions : t < s => phase[t] # "none"
    /\ phase' = [phase EXCEPT ![s] = "accepting"]
    /\ UNCHANGED <<notHub, hub_event, link, sessions_, mutex_, bcast, posted, write_queue_,
                   inflight, reads, ping, ping_delay, nextMsg, delivered,
                   wire, bcastLog>>

\* completion handler of async_accept in ws_session::start
on_accept(s) ==
    /\ phase[s] = "accepting"
    /\ \E ec \in BOOLEAN :
        /\ (link[s] # "up") => ec
        /\ IF ec
           THEN /\ phase' = [phase EXCEPT ![s] = "refused"]
                /\ UNCHANGED <<sessions_, ping, ping_delay, reads>>
           ELSE /\ lock_guard
                /\ phase' = [phase EXCEPT ![s] = "open"]
                /\ sessions_' = join(sessions_, s)
                /\ ping' = [ping EXCEPT ![s] = do_ping(@)]
                /\ ping_delay' = [ping_delay EXCEPT ![s] = ping_period]
                /\ reads' = [reads EXCEPT ![s] = do_read(@)]
    /\ UNCHANGED <<notHub, hub_event, link, mutex_, bcast, posted, write_queue_, inflight,
                   nextMsg, delivered, wire, bcastLog>>

\* the peer closes the websocket cleanly, or the connection breaks
PeerClose(s) ==
    /\ phase[s] = "open"
    /\ link[s] = "up"
    /\ \E l \in {"closed", "broken"} : link' = [link EXCEPT ![s] = l]
    /\ UNCHANGED <<notHub, hub_event, phase, sessions_, mutex_, bcast, posted, write_queue_,
                   inflight, reads, ping, ping_delay, nextMsg, delivered,
                   wire, bcastLog>>

\* what ws_session::on_read does with a frame
on_read_frame(f) ==
    IF f.json = "bad" THEN "parse_error"            \* logged
    ELSE IF f.json # "object" THEN "ignored"        \* silently
    ELSE IF f.id = 0 \/ f.data = "absent" THEN "missing_fields"   \* logged
    ELSE IF f.id = 1 THEN "echo"                    \* deliver(resp_str)
    ELSE IF f.id = 2 THEN "review_result"           \* logged
    ELSE "unsupported"                              \* logged

\* ws_session::on_read
on_read(s) ==
    /\ reads[s] > 0
    /\ CASE link[s] = "closed" ->
              \* ec == websocket::error::closed: return
              /\ reads' = [reads EXCEPT ![s] = @ - 1]
              /\ hub_event' = [s |-> s, res |-> "closed"]
              /\ UNCHANGED <<sessions_, posted, delivered, nextMsg>>
         [] link[s] = "broken" ->
              \* any other error: leave, return
              /\ lock_guard
              /\ sessions_' = leave(sessions_, s)
              /\ reads' = [reads EXCEPT ![s] = @ - 1]
              /\ hub_event' = [s |-> s, res |-> "error"]
              /\ UNCHANGED <<posted, delivered, nextMsg>>
         [] OTHER ->
              \* a frame arrived: decode, handle, do_read()
              \E f \in Frames :
                /\ IF on_read_frame(f) = "echo"
                   THEN /\ nextMsg <= MaxMsgs
                        /\ deliver(s, nextMsg)
                        /\ nextMsg' = nextMsg + 1
                   ELSE UNCHANGED <<posted, delivered, nextMsg>>
                /\ hub_event' = [s |-> s, res |-> on_read_frame(f)]
                /\ reads' = [reads EXCEPT ![s] = do_read(@ - 1)]
                /\ UNCHANGED sessions_
    /\ UNCHANGED <<notHub, phase, link, mutex_, bcast, write_queue_, inflight, ping,
                   ping_delay, wire, bcastLog>>

\* the io_context runs the oldest lambda posted by deliver()
run_posted(s) ==
    /\ posted[s] # <<>>
    /\ LET r == deliver_lambda(write_queue_[s], inflight[s], Head(posted[s]))
       IN  /\ write_queue_' = [write_queue_ EXCEPT ![s] = r.queue]
           /\ inflight' = [inflight EXCEPT ![s] = r.ops]
    /\ posted' = [posted EXCEPT ![s] = Tail(@)]
    /\ UNCHANGED <<notHub, hub_event, phase, link, sessions_, mutex_, bcast, reads, ping,
                   ping_delay, nextMsg, delivered, wire, bcastLog>>

\* what on_write leaves in the queue after a successful write
pop_front(q) == Tail(q)

\* ws_session::on_write
on_write_pop_on_error(s) ==
    /\ inflight[s] # <<>>
    /\ LET q2 == pop_front(write_queue_[s])
       IN  /\ IF link[s] # "up"
              THEN /\ lock_guard
                   /\ sessions_' = leave(sessions_, s)
                   /\ UNCHANGED wire
              ELSE /\ wire' = [wire EXCEPT ![s] = Append(@, Head(inflight[s]))]
                   /\ UNCHANGED sessions_
           /\ write_queue_' = [write_queue_ EXCEPT ![s] = q2]
           /\ inflight' = [inflight EXCEPT ![s] =
                             IF q2 # <<>> THEN do_write(q2, Tail(@))
                             ELSE Tail(@)]
    /\ UNCHANGED <<notHub, hub_event, phase, link, mutex_, bcast, posted, reads, ping,
                   ping_delay, nextMsg, delivered, bcastLog>>
on_write(s) ==
    /\ inflight[s] # <<>>
    /\ IF link[s] # "up"
       THEN /\ lock_guard
            /\ sessions_' = leave(sessions_, s)
            /\ inflight' = [inflight EXCEPT ![s] = Tail(@)]
            /\ UNCHANGED <<write_queue_, wire>>
       ELSE LET q2 == pop_front(write_queue_[s])
            IN  /\ wire' = [wire EXCEPT ![s] = Append(@, Head(inflight[s]))]
                /\ write_queue_' = [write_queue_ EXCEPT ![s] = q2]
                /\ inflight' = [inflight EXCEPT ![s] =
                                  IF q2 # <<>> THEN do_write(q2, Tail(@))
                                  ELSE Tail(@)]
                /\ UNCHANGED sessions_
    /\ UNCHANGED <<notHub, hub_event, phase, link, mutex_, bcast, posted, reads, ping,
                   ping_delay, nextMsg, delivered, bcastLog>>

\* completion handler of ping_timer_.async_wait in ws_session::do_ping
\* (the timer is never cancelled, so ec is never set)
on_ping_timer(s) ==
    /\ ping[s].waits > 0
    /\ ping' = [ping EXCEPT ![s] = [waits |-> @.waits - 1, pings |-> @.pings + 1]]
    /\ UNCHANGED <<notHub, hub_event, phase, link, sessions_, mutex_, bcast, posted,
                   write_queue_, inflight, reads, ping_delay, nextMsg,
                   delivered, wire, bcastLog>>

\* completion handler of async_ping in ws_session::do_ping
on_ping(s) ==
    /\ ping[s].pings > 0
    /\ IF link[s] # "up"
       THEN /\ lock_guard
            /\ sessions_' = leave(sessions_, s)
            /\ ping' = [ping EXCEPT ![s].pings = @ - 1]
            /\ UNCHANGED ping_delay
       ELSE /\ ping' = [ping EXCEPT ![s] = do_ping([@ EXCEPT !.pings = @ - 1])]
            /\ ping_delay' = [ping_delay EXCEPT ![s] = ping_period]
            /\ UNCHANGED sessions_
    /\ UNCHANGED <<notHub, hub_event, phase, link, mutex_, bcast, posted, write_queue_,
                   inflight, reads, nextMsg, delivered, wire, bcastLog>>

\* shared_state::broadcast, called by handle_request for /tasks:
\* the lock is taken, ...
broadcast_begin ==
    /\ lock_guard
    /\ nextMsg <= MaxMsgs
    /\ mutex_' = "broadcast"
    /\ bcast' = [msg |-> nextMsg, snap |-> sessions_, done |-> {}]
    /\ nextMsg' = nextMsg + 1
    /\ UNCHANGED <<notHub, hub_event, phase, link, sessions_, posted, write_queue_, inflight,
                   reads, ping, ping_delay, delivered, wire, bcastLog>>

\* ... the loop body runs for one session of sessions_, ...
broadcast_step_inline(s) ==
    /\ mutex_ = "broadcast"
    /\ s \in sessions_ \ bcast.done
    /\ LET r == deliver_lambda(write_queue_[s], inflight[s], bcast.msg)
       IN  /\ write_queue_' = [write_queue_ EXCEPT ![s] = r.queue]
           /\ inflight' = [inflight EXCEPT ![s] = r.ops]
    /\ delivered' = [delivered EXCEPT ![s] = Append(@, bcast.msg)]
    /\ bcast' = [bcast EXCEPT !.done = @ \cup {s}]
    /\ UNCHANGED <<notHub, hub_event, phase, link, sessions_, mutex_, posted,
                   reads, ping, ping_delay, nextMsg, wire, bcastLog>>
broadcast_step(s) ==
    /\ mutex_ = "broadcast"
    /\ s \in sessions_ \ bcast.done
    /\ deliver(s, bcast.msg)
    /\ bcast' = [bcast EXCEPT !.done = @ \cup {s}]
    /\ UNCHANGED <<notHub, hub_event, phase, link, sessions_, mutex_, write_queue_, inflight,
                   reads, ping, ping_delay, nextMsg, wire, bcastLog>>

\* ... and the lock is released when the loop has visited every session
broadcast_end ==
    /\ mutex_ = "broadcast"
    /\ sessions_ \ bcast.done = {}
    /\ mutex_' = "free"
    /\ bcastLog' = bcastLog @@ (bcast.msg :> [snap |-> bcast.snap,
                                               done |-> bcast.done])
    /\ bcast' = [msg |-> 0, snap |-> {}, done |-> {}]
    /\ UNCHANGED <<notHub, hub_event, phase, link, sessions_, posted, write_queue_, inflight,
                   reads, ping, ping_delay, nextMsg, delivered, wire>>

HubInit ==
    /\ phase = [s \in Sessions |-> "none"]
    /\ link = [s \in Sessions |-> "up"]
    /\ sessions_ = {}
    /\ mutex_ = "free"
    /\ bcast = [msg |-> 0, snap |-> {}, done |-> {}]
    /\ posted = [s \in Sessions |-> <<>>]
    /\ write_queue_ = [s \in Sessions |-> <<>>]
    /\ inflight = [s \in Sessions |-> <<>>]
    /\ reads = [s \in Sessions |-> 0]
    /\ ping = [s \in Sessions |-> NoPing]
    /\ ping_delay = [s \in Sessions |-> ping_period]
    /\ nextMsg = 1
    /\ delivered = [s \in Sessions |-> <<>>]
    /\ wire = [s \in Sessions |-> <<>>]
    /\ bcastLog = <<>>
    /\ hub_event = [s |-> 0, res |-> "none"]

HubNext ==
    \/ \E s \in Sessions : start(s)
    \/ \E s \in Sessions : on_accept(s)
    \/ \E s \in Sessions : PeerClose(s)
    \/ \E s \in Sessions : on_read(s)
    \/ \E s \in Sessions : run_posted(s)
    \/ \E s \in Sessions : on_write(s)
    \/ \E s \in Sessions : on_ping_timer(s)
    \/ \E s \in Sessions : on_ping(s)
    \/ broadcast_begin
    \/ \E s \in Sessions : broadcast_step(s)
    \/ broadcast_end

\* ================================================================ client
\* A ManagedWebSocketClient object:
\*   ep     : the endpoint it was constructed for (0: not constructed)
\*   link   : its socket: "none" (never connected), "up", "down"
\*   reads  : outstanding async_read operations of client_
\*   timers : pending waits on reconnect_timer_
\*   delay  : the last expiry set on reconnect_timer_ (0: never set)
\*   cb     : client_.on_disconnect_ is set
NoObject == [ep |-> 0, link |-> "none", reads |-> 0, timers |-> 0,
             delay |-> 0, cb |-> FALSE]

\* ManagedWebSocketClient::schedule_reconnect: expires_after cancels a
\* pending wait, async_wait arms one
schedule_reconnect_backoff(r) ==
    [r EXCEPT !.timers = 1,
              !.delay = IF r.delay = 0 THEN ReconnectDelay ELSE 2 * r.delay]
schedule_reconnect(r) == [r EXCEPT !.timers = 1, !.delay = ReconnectDelay]

\* ManagedWebSocketClient::on_disconnect
on_disconnect(r) == schedule_reconnect(r)

\* ManagedWebSocketClient::do_connect with WebSocketClient::connect inlined:
\* resolve, connect and handshake are synchronous and throw on failure;
\* on success connect() arms the first read and on_disconnect_ is set.
do_connect(r, ok) ==
    IF ok
    THEN [r EXCEPT !.link = "up", !.reads = @ + 1, !.cb = TRUE]
    ELSE schedule_reconnect(r)

\* catch (const std::exception& e) in the read handler: the error is logged
catch_exception_disconnect(r) == IF r.cb THEN on_disconnect(r) ELSE r
catch_exception(r) == r

\* the completion handler of async_read in WebSocketClient::receiveData
receiveData_rearm(r) ==
    IF r.link # "up"
    THEN IF r.cb THEN on_disconnect(r) ELSE r
    ELSE r
receiveData(r) ==
    IF r.link # "up"
    THEN [(IF r.cb THEN on_disconnect(r) ELSE r) EXCEPT !.reads = @ - 1]
    ELSE r      \* frame handled, buffer consumed, receiveData() again

\* WebSocketClient::sendProtocol: a synchronous ws_.write, which throws
\* when the stream is not open or the connection is lost
sendProtocol_prepend(r, w, m) ==
    IF r.link = "up" THEN [wire |-> <<m>> \o w, res |-> "ok"]
    ELSE [wire |-> w, res |-> "threw"]
sendProtocol(r, w, m) ==
    IF r.link = "up" THEN [wire |-> Append(w, m), res |-> "ok"]
    ELSE [wire |-> w, res |-> "threw"]

\* the test of WebSocketClientManager::addConnection for an existing key
hasConnection_never(conns, e) == FALSE
hasConnection(conns, e) == conns[e] # NoClient

\* WebSocketClientManager::addConnection, with start() and do_connect()
addConnection(e) ==
    /\ UNCHANGED <<notClient, routerVars>>
    /\ IF hasConnection(connections_, e)
       THEN /\ cl_event' = [op |-> "add", c |-> connections_[e], res |-> "exists"]
            /\ UNCHANGED <<connections_, created, cl, reachable, cl_sent,
                           cl_wire, cl_nextMsg>>
       ELSE /\ created < MaxClients
            /\ LET c == created + 1
                   r == do_connect([NoObject EXCEPT !.ep = e], reachable[e])
               IN  /\ created' = c
                   /\ connections_' = [connections_ EXCEPT ![e] = c]
                   /\ cl' = [cl EXCEPT ![c] = r]
                   /\ cl_event' = [op |-> "add", c |-> c,
                                   res |-> IF reachable[e] THEN "connected"
                                           ELSE "failed"]
            /\ UNCHANGED <<reachable, cl_sent, cl_wire, cl_nextMsg>>

\* WebSocketClientManager::removeConnection: only the map entry is erased.
\* The object stays alive: the pending timer wait holds a shared_ptr to it,
\* and once connected its own on_disconnect_ does.
removeConnection(e) ==
    /\ connections_' = [connections_ EXCEPT ![e] = NoClient]
    /\ cl_event' = [op |-> "remove", c |-> connections_[e],
                    res |-> IF connections_[e] # NoClient THEN "erased"
                            ELSE "absent"]
    /\ UNCHANGED <<notClient, routerVars, created, cl, reachable, cl_sent, cl_wire, cl_nextMsg>>

\* WebSocketClientManager::sendMessage -> ManagedWebSocketClient::send
sendMessage(e) ==
    /\ cl_nextMsg <= MaxSends
    /\ IF connections_[e] = NoClient
       THEN /\ cl_event' = [op |-> "send", c |-> NoClient, res |-> "absent"]
            /\ UNCHANGED <<cl_sent, cl_wire, cl_nextMsg>>
       ELSE LET c == connections_[e]
                r == sendProtocol(cl[c], cl_wire[c], cl_nextMsg)
            IN  /\ cl_sent' = [cl_sent EXCEPT ![c] = Append(@, cl_nextMsg)]
                /\ cl_wire' = [cl_wire EXCEPT ![c] = r.wire]
                /\ cl_nextMsg' = cl_nextMsg + 1
                /\ cl_event' = [op |-> "send", c |-> c, res |-> r.res]
    /\ UNCHANGED <<notClient, routerVars, connections_, created, cl, reachable>>

\* the wait on reconnect_timer_ completes without error: do_connect()
on_reconnect_timer(c) ==
    /\ cl[c].timers > 0
    /\ LET ok == reachable[cl[c].ep]
       IN  /\ cl' = [cl EXCEPT ![c] = do_connect([cl[c] EXCEPT !.timers = @ - 1], ok)]
           /\ cl_event' = [op |-> "reconnect", c |-> c,
                           res |-> IF ok THEN "connected" ELSE "failed"]
    /\ UNCHANGED <<notClient, routerVars, connections_, created, reachable, cl_sent, cl_wire,
                   cl_nextMsg>>

\* ProtocolHandlerRegistry::registerHandler: handlers_[protocol_id] = handler
registerHandler_keep(h, id, fn) ==
    IF h[id] = NoHandler THEN [h EXCEPT ![id] = fn] ELSE h
registerHandler(h, id, fn) == [h EXCEPT ![id] = fn]

\* the application registers a handler, as runClient does
register(id, fn) ==
    /\ TotalLen(reg_log, FrameIds) < MaxRegs
    /\ handlers_' = registerHandler(handlers_, id, fn)
    /\ reg_log' = [reg_log EXCEPT ![id] = Append(@, fn)]
    /\ UNCHANGED <<notClient, connections_, created, cl, reachable, cl_sent,
                   cl_wire, cl_nextMsg, cl_event>>

\* ProtocolHandlerRegistry::handleProtocol: the handler found is called
\* once with the id, a missing one is reported on cerr
handleProtocol_first(h, id) ==
    IF \E i \in FrameIds : h[i] # NoHandler
    THEN [res |-> "handled", id |-> id,
          h |-> h[CHOOSE i \in FrameIds : h[i] # NoHandler]]
    ELSE [res |-> "nohandler", id |-> id, h |-> NoHandler]
handleProtocol(h, id) ==
    IF h[id] # NoHandler
    THEN [res |-> "handled", id |-> id, h |-> h[id]]
    ELSE [res |-> "nohandler", id |-> id, h |-> NoHandler]

\* the try block of the read handler in WebSocketClient::receiveData:
\* json::parse, as_object and at() throw, the catch logs the error
receiveData_frame_strict(h, f) ==
    IF f.json # "object" \/ f.id = 0 \/ f.data = "absent"
    THEN [res |-> "disconnect", id |-> 0, h |-> NoHandler]
    ELSE IF f.data = "string"
    THEN [res |-> "simple", id |-> 0, h |-> NoHandler]
    ELSE handleProtocol(h, f.id)
receiveData_frame(h, f) ==
    IF f.json # "object" \/ f.id = 0 \/ f.data = "absent"
    THEN [res |-> "dropped", id |-> 0, h |-> NoHandler]
    ELSE IF f.data = "string"
    THEN [res |-> "simple", id |-> 0, h |-> NoHandler]
    ELSE handleProtocol(h, f.id)

\* the async_read of receiveData completes: with an error when the
\* connection is lost, with a frame otherwise
\* (a handler that is called may throw: the catch block covers it too)
on_receive(c) ==
    /\ cl[c].reads > 0
    /\ IF cl[c].link # "up"
       THEN /\ cl' = [cl EXCEPT ![c] = receiveData(@)]
            /\ cl_event' = [op |-> "read", c |-> c, res |-> "disconnect",
                            id |-> 0, h |-> NoHandler]
       ELSE \E f \in Frames, thrown \in BOOLEAN :
              LET o == receiveData_frame(handlers_, f)
                  res == IF thrown THEN "handler_threw" ELSE o.res
              IN  /\ thrown => o.res = "handled"
                  /\ cl' = [cl EXCEPT ![c] =
                              receiveData(IF res \in {"dropped", "handler_threw"}
                                          THEN catch_exception(@) ELSE @)]
                  /\ cl_event' = [op |-> "read", c |-> c, res |-> res,
                                  id |-> o.id, h |-> o.h]
    /\ UNCHANGED <<notClient, routerVars, connections_, created, reachable, cl_sent,
                   cl_wire, cl_nextMsg>>

\* environment: an established connection is lost
LinkDown(c) ==
    /\ cl[c].link = "up"
    /\ cl' = [cl EXCEPT ![c].link = "down"]
    /\ UNCHANGED <<notClient, routerVars, connections_, created, reachable, cl_sent, cl_wire,
                   cl_nextMsg, cl_event>>

\* environment: a server starts or stops accepting connections
ServerToggle(e) ==
    /\ reachable' = [reachable EXCEPT ![e] = ~@]
    /\ UNCHANGED <<notClient, routerVars, connections_, created, cl, cl_sent, cl_wire, cl_nextMsg,
                   cl_event>>

ClientInit ==
    /\ connections_ = [e \in Endpoints |-> NoClient]
    /\ created = 0
    /\ cl = [c \in Clients |-> NoObject]
    /\ reachable = [e \in Endpoints |-> FALSE]
    /\ cl_sent = [c \in Clients |-> <<>>]
    /\ cl_wire = [c \in Clients |-> <<>>]
    /\ cl_nextMsg = 1
    /\ cl_event = [op |-> "init", c |-> NoClient, res |-> "none"]
    /\ handlers_ = [id \in FrameIds |-> NoHandler]
    /\ reg_log = [id \in FrameIds |-> <<>>]

ClientNext ==
    \/ \E e \in Endpoints : addConnection(e)
    \/ \E e \in Endpoints : removeConnection(e)
    \/ \E e \in Endpoints : sendMessage(e)
    \/ \E c \in Clients : on_reconnect_timer(c)
    \/ \E c \in Clients : on_receive(c)
    \/ \E c \in Clients : LinkDown(c)
    \/ \E e \in Endpoints : ServerToggle(e)

\* ================================================== download coordinator
\* HTTPDownloader::addDownloadTask(url, callback) as its callers use it
\* (XmlDownload.h, MinReview.cpp): a guarded active set of URLs, a fixed
\* worker pool, one callback(url, local_path, success) per finished job.
\* A submission is [url, status, calls]: status "dropped" (no job made),
\* "queued", "running", "succeeded" or "failed"; calls counts the
\* invocations of its callback.
Urls == 1..NumUrls
Subs == 1..MaxSubmits

\* the test of the active set made by a submission
isActive_never(active, u) == FALSE
isActive(active, u) == u \in active

\* what a finished job leaves in the active set
release_on_success(active, u, ok) == IF ok THEN active \ {u} ELSE active
release(active, u, ok) == active \ {u}

\* submit: a URL already active is dropped, another becomes a queued job
addDownloadTask(u) ==
    /\ Len(dl_subs) < MaxSubmits
    /\ IF isActive(dl_active, u)
       THEN /\ dl_subs' = Append(dl_subs, [url |-> u, status |-> "dropped",
                                           calls |-> 0])
            /\ UNCHANGED dl_active
       ELSE /\ dl_subs' = Append(dl_subs, [url |-> u, status |-> "queued",
                                           calls |-> 0])
            /\ dl_active' = dl_active \cup {u}
    /\ UNCHANGED <<hubVars, clientVars, fetchVars, xmlVars, chunkVars>>

\* a free worker of the pool takes a queued job
run_job(j) ==
    /\ j \in 1..Len(dl_subs)
    /\ dl_subs[j].status = "queued"
    /\ Cardinality({i \in 1..Len(dl_subs) : dl_subs[i].status = "running"})
           < NumWorkers
    /\ dl_subs' = [dl_subs EXCEPT ![j].status = "running"]
    /\ UNCHANGED <<hubVars, clientVars, fetchVars, xmlVars, chunkVars, dl_active>>

\* the job's fetch returns or throws: the callback is invoked with the
\* outcome and the URL leaves the active set
finish_job(j) ==
    /\ j \in 1..Len(dl_subs)
    /\ dl_subs[j].status = "running"
    /\ \E ok \in BOOLEAN :
        /\ dl_subs' = [dl_subs EXCEPT
                          ![j].status = IF ok THEN "succeeded" ELSE "failed",
                          ![j].calls = @ + 1]
        /\ dl_active' = release(dl_active, dl_subs[j].url, ok)
    /\ UNCHANGED <<hubVars, clientVars, fetchVars, xmlVars, chunkVars>>

DlInit ==
    /\ dl_active = {}
    /\ dl_subs = <<>>

DlNext ==
    \/ \E u \in Urls : addDownloadTask(u)
    \/ \E j \in Subs : run_job(j)
    \/ \E j \in Subs : finish_job(j)

\* ================================================================ fetcher
\* XmlDownloader::download and HttpDownloader::download.  fetch is the
\* call's state:
\*   pc           : "idle", "loop" (in the read loop), "returned", "threw"
\*   kind         : "xml" (XmlDownloader) or "http" (HttpDownloader)
\*   existing     : existing_file_size, the size of the local file at the start
\*   resume       : the local file was not empty
\*   range        : the value of the request's Range header, <<>> if none
\*   header_done  : the response header has been handled
\*   status       : res.result() when the header was handled (0: not yet)
\*   data_handler : the XmlToJsonDataHandler was created
\*   written, fed : body bytes written to the file, handed to handleData
\*   json         : data_handler->finalize() has written the JSON file
\*   error        : what made the call throw ("none", "status", "transport",
\*                  "transduction")
\* resp is the response as the server sends it: its status, whether the
\* header has been received, its body, the number of body bytes sent and of
\* those still to come.  output_file is the content of the local file.
Statuses == {200, 206, 404, 416}
Kinds == {"xml", "http"}

NoFetch == [pc |-> "idle", kind |-> "xml", existing |-> 0, resume |-> FALSE,
            range |-> <<>>, header_done |-> FALSE, status |-> 0,
            data_handler |-> FALSE, written |-> <<>>, fed |-> <<>>,
            json |-> FALSE, error |-> "none"]

\* fs::file_size(output_file), 0 for a file that does not exist
file_size == Len(output_file)

\* the bytes of the resource at the target, and the body of an error page
Resource == [i \in 1..MaxBody |-> i]
ErrorPage(b) == [i \in 1..b |-> 0]

\* the Range header of the request
range_header_always(existing_file_size) ==
    <<"bytes=", existing_file_size, "-">>
range_header(existing_file_size) ==
    IF existing_file_size > 0
    THEN <<"bytes=", existing_file_size, "-">>
    ELSE <<>>

\* the server's side: the first byte position a Range header asks for, and
\* the body sent with a status (200: the whole resource, 206: the resource
\* from the position asked for, otherwise an error page of b bytes)
first_byte_pos(range) == IF range = <<>> THEN 0 ELSE range[2]
response_body(status, range, b) ==
    IF status = 200 THEN Resource
    ELSE IF status = 206
    THEN SubSeq(Resource, first_byte_pos(range) + 1, Len(Resource))
    ELSE ErrorPage(b)

\* std::ofstream file(output_file, binary | app): the content stays
ofstream_trunc(content) == <<>>
ofstream_app(content) == content

\* the test of the status made when the header is complete (XmlDownloader)
on_status_no416(resume, status) ==
    IF resume /\ status # 206 THEN "throw"
    ELSE IF ~resume /\ status # 200 THEN "throw"
    ELSE "continue"
on_status(resume, status) ==
    IF resume /\ status = 416 THEN "return"
    ELSE IF resume /\ status # 206 THEN "throw"
    ELSE IF ~resume /\ status # 200 THEN "throw"
    ELSE "continue"

\* the same test in HttpDownloader::download
http_on_status(resume, status) ==
    IF resume /\ status # 206 THEN "throw"
    ELSE IF ~resume /\ status # 200 THEN "throw"
    ELSE "continue"

\* the body bytes bs the parser holds are handed chunk by chunk to
\* data_handler (if any) and then written to the file; k > 0: handleData
\* throws on the k-th of them, which is then not written, nor is any later
\* one.  The result is the call's state and the file's content.
write_body_nofeed(f, content, bs, k) ==
    [f |-> [f EXCEPT !.written = @ \o bs], file |-> content \o bs]
write_body_rollback(f, content, bs, k) ==
    IF k = 0
    THEN [f |-> [f EXCEPT !.written = @ \o bs,
                          !.fed = IF f.data_handler THEN @ \o bs ELSE @],
          file |-> content \o bs]
    ELSE [f |-> [f EXCEPT !.written = <<>>,
                          !.fed = @ \o SubSeq(bs, 1, k),
                          !.pc = "threw", !.error = "transduction"],
          file |-> SubSeq(content, 1, Len(content) - Len(f.written))]
write_body(f, content, bs, k) ==
    IF k = 0
    THEN [f |-> [f EXCEPT !.written = @ \o bs,
                          !.fed = IF f.data_handler THEN @ \o bs ELSE @],
          file |-> content \o bs]
    ELSE [f |-> [f EXCEPT !.written = @ \o SubSeq(bs, 1, k - 1),
                          !.fed = @ \o SubSeq(bs, 1, k),
                          !.pc = "threw", !.error = "transduction"],
          file |-> content \o SubSeq(bs, 1, k - 1)]

\* after the loop: data_handler->finalize() if there is a handler, which may
\* throw; file.close(); return output_file
after_loop(f, fin) ==
    IF f.data_handler /\ fin = "throw"
    THEN [f EXCEPT !.pc = "threw", !.error = "transduction"]
    ELSE [f EXCEPT !.pc = "returned", !.json = f.data_handler]

\* if (existing_file_size == 0) data_handler = make_unique<XmlToJsonDataHandler>;
\* HttpDownloader has no data handler
attach_handler_always(kind, existing_file_size) == kind = "xml"
attach_handler(kind, existing_file_size) ==
    kind = "xml" /\ existing_file_size = 0

\* download() up to the read loop: resume is decided by the size of the
\* local file, the request is sent, the file is opened for appending
download_begin(kind) ==
    /\ fetch.pc # "loop"
    /\ fetches < MaxFetches
    /\ fetches = 0 \/ fetch.kind = kind
    /\ fetches' = fetches + 1
    /\ LET existing_file_size == file_size
           range == range_header(existing_file_size)
       IN  /\ fetch' = [NoFetch EXCEPT !.pc = "loop", !.kind = kind,
                                       !.existing = existing_file_size,
                                       !.resume = existing_file_size > 0,
                                       !.range = range]
           /\ \E st \in Statuses, b \in 0..MaxBody :
                LET body == response_body(st, range, b)
                IN  resp' = [status |-> st, header |-> FALSE, body |-> body,
                             sent |-> Len(body), left |-> Len(body)]
    /\ output_file' = ofstream_app(output_file)
    /\ UNCHANGED <<hubVars, clientVars, dlVars, xmlVars, chunkVars>>

download == download_begin("xml")

http_download == download_begin("http")

\* one turn of the read loop: read_some, parser.put, the header when it is
\* complete, the body bytes parsed so far, parser.is_done
read_some ==
    /\ fetch.pc = "loop"
    /\ \E ec \in {"ok", "eof", "error"} :
        CASE ec = "eof" ->
               \* the loop ends, finalize, return output_file
               /\ \E fin \in {"ok", "throw"} : fetch' = after_loop(fetch, fin)
               /\ UNCHANGED <<resp, output_file>>
          [] ec = "error" ->
               /\ fetch' = [fetch EXCEPT !.pc = "threw", !.error = "transport"]
               /\ UNCHANGED <<resp, output_file>>
          [] OTHER ->
               \* the read completes the header if it is not complete yet (a
               \* read that leaves it incomplete changes nothing), and brings
               \* n body bytes
               \E n \in 0..resp.left :
                 LET hdr == ~resp.header
                     decided ==
                         IF ~hdr THEN "continue"
                         ELSE IF fetch.kind = "xml"
                         THEN on_status(fetch.resume, resp.status)
                         ELSE http_on_status(fetch.resume, resp.status)
                     f1 == IF hdr
                           THEN [fetch EXCEPT !.header_done = TRUE,
                                              !.status = resp.status]
                           ELSE fetch
                     bs == SubSeq(resp.body, resp.sent - resp.left + 1,
                                  resp.sent - resp.left + n)
                 IN  /\ hdr \/ n > 0
                     /\ resp' = [resp EXCEPT !.header = TRUE, !.left = @ - n]
                     /\ IF decided = "return"
                        THEN /\ fetch' = [f1 EXCEPT !.pc = "returned"]
                             /\ UNCHANGED output_file
                        ELSE IF decided = "throw"
                        THEN /\ fetch' = [f1 EXCEPT !.pc = "threw",
                                                    !.error = "status"]
                             /\ UNCHANGED output_file
                        ELSE LET f2 == IF hdr
                                       THEN [f1 EXCEPT !.data_handler =
                                                 attach_handler(fetch.kind,
                                                     fetch.existing)]
                                       ELSE f1
                             IN  \E k \in 0..n, fin \in {"ok", "throw"} :
                                   LET w == write_body(f2, output_file, bs, k)
                                   IN  /\ k > 0 => f2.data_handler
                                       /\ output_file' = w.file
                                       /\ fetch' =
                                            IF k = 0 /\ resp.left - n = 0
                                            THEN after_loop(w.f, fin)
                                            ELSE w.f
    /\ UNCHANGED <<hubVars, clientVars, dlVars, xmlVars, chunkVars, fetches>>

FetchInit ==
    /\ fetch = NoFetch
    /\ resp = [status |-> 0, header |-> FALSE, body |-> <<>>, sent |-> 0,
               left |-> 0]
    /\ output_file = <<>>
    /\ fetches = 0

FetchNext ==
    \/ download
    \/ http_download
    \/ read_some

\* ============================================================ transducer
\* XmlToJsonDataHandler.  Expat calls startElement, endElement and
\* characterData while handleData feeds it the document; xml_open is its
\* stack of open elements (it reports only well-formed nesting under one
\* root element, and no character data outside the root).
\* A JSON value is a record: t is "obj" (m: key -> value), "arr" (a: a
\* sequence of values) or "str" (s: a sequence of characters).  A pointer
\* of jsonStack_ is the path from root_ to the value it points to: a
\* sequence of steps [k, i], k the key in the object and i the position in
\* the array under that key (0: the value under the key itself).
Names == {"component", "a", "b"}
Whitespace == {" ", "\t", "\n", "\r"}
Texts == {<<"1">>, <<" ", "2", "\n">>, <<" ">>,
          <<"p", ".", "p", "n", "g", "\n">>}
NoAtts == [k \in {} |-> <<>>]
AttLists == {NoAtts, [k \in {"b"} |-> <<"x">>]}

Str(s) == [t |-> "str", m |-> NoAtts, a |-> <<>>, s |-> s]
Obj(m) == [t |-> "obj", m |-> m, a |-> <<>>, s |-> <<>>]
Arr(a) == [t |-> "arr", m |-> NoAtts, a |-> a, s |-> <<>>]

\* *p and *p = nv for a pointer p into the value v
RECURSIVE Get(_, _)
Get(v, p) ==
    IF p = <<>> THEN v
    ELSE LET c == v.m[Head(p).k]
         IN  Get(IF Head(p).i = 0 THEN c ELSE c.a[Head(p).i], Tail(p))

RECURSIVE Put(_, _, _)
Put(v, p, nv) ==
    IF p = <<>> THEN nv
    ELSE LET k == Head(p).k
             i == Head(p).i
             c == v.m[k]
         IN  [v EXCEPT !.m[k] =
                 IF i = 0 THEN Put(c, Tail(p), nv)
                 ELSE [c EXCEPT !.a[i] = Put(c.a[i], Tail(p), nv)]]

\* object::emplace(k, v): a key that is present keeps its value
emplace(m, k, v) ==
    IF k \in DOMAIN m THEN m
    ELSE [x \in DOMAIN m \cup {k} |-> IF x = k THEN v ELSE m[x]]

\* the object made of an element's attributes
new_element(atts) == Obj([k \in DOMAIN atts |-> Str(atts[k])])

\* trim: the text without the white space at its two ends
RECURSIVE trim(_)
trim(str) ==
    IF str = <<>> THEN <<>>
    ELSE IF Head(str) \in Whitespace THEN trim(Tail(str))
    ELSE IF Last(str) \in Whitespace THEN trim(SubSeq(str, 1, Len(str) - 1))
    ELSE str

ends_with(str, suffix) ==
    /\ Len(str) >= Len(suffix)
    /\ SubSeq(str, Len(str) - Len(suffix) + 1, Len(str)) = suffix

is_image(str) ==
    \/ ends_with(str, <<".", "j", "p", "g">>)
    \/ ends_with(str, <<".", "j", "p", "e", "g">>)
    \/ ends_with(str, <<".", "p", "n", "g">>)

\* the handler object as a record: its fields, whether the call threw and
\* the arguments componentParseCallback_ has been called with
Handler ==
    [componentDepth_ |-> componentDepth_,
     componentCaptured_ |-> componentCaptured_,
     root_ |-> root_, jsonStack_ |-> jsonStack_,
     thrown |-> FALSE, calls |-> parse_calls]

\* a child element: it is added to the object on top of the stack, under
\* its name or at the end of the array under its name
add_child(h, name, atts) ==
    LET top == Last(h.jsonStack_)
        parent == Get(h.root_, top)
        h1 == [h EXCEPT !.componentDepth_ = @ + 1]
    IN  IF parent.t # "obj" THEN [h1 EXCEPT !.thrown = TRUE]
        ELSE IF name \in DOMAIN parent.m
        THEN LET old == parent.m[name]
                 arr == Append(IF old.t = "arr" THEN old.a ELSE <<old>>,
                               new_element(atts))
             IN  [h1 EXCEPT
                    !.root_ = Put(@, top, [parent EXCEPT !.m[name] = Arr(arr)]),
                    !.jsonStack_ =
                        Append(@, Append(top, [k |-> name, i |-> Len(arr)]))]
        ELSE [h1 EXCEPT
                !.root_ = Put(@, top,
                    [parent EXCEPT !.m = emplace(@, name, new_element(atts))]),
                !.jsonStack_ = Append(@, Append(top, [k |-> name, i |-> 0]))]

\* the start of the capture: root_ is the component's object
begin_capture(h, atts) ==
    [h EXCEPT !.componentDepth_ = 1, !.root_ = new_element(atts),
              !.jsonStack_ = << <<>> >>]

onStartElement_recapture(h, name, atts) ==
    IF h.componentDepth_ = 0
    THEN IF name = "component" THEN begin_capture(h, atts) ELSE h
    ELSE add_child(h, name, atts)
onStartElement_anyname(h, name, atts) ==
    IF h.componentDepth_ = 0
    THEN IF ~h.componentCaptured_ THEN begin_capture(h, atts) ELSE h
    ELSE add_child(h, name, atts)
onStartElement(h, name, atts) ==
    IF h.componentDepth_ = 0
    THEN IF ~h.componentCaptured_ /\ name = "component"
         THEN begin_capture(h, atts)
         ELSE h
    ELSE add_child(h, name, atts)

onEndElement_nopop(h) ==
    IF h.componentDepth_ > 0
    THEN [h EXCEPT !.componentDepth_ = @ - 1,
                   !.componentCaptured_ = @ \/ h.componentDepth_ = 1]
    ELSE h
onEndElement(h) ==
    IF h.componentDepth_ > 0
    THEN [h EXCEPT !.componentDepth_ = @ - 1,
                   !.jsonStack_ = IF @ # <<>> THEN SubSeq(@, 1, Len(@) - 1)
                                  ELSE @,
                   !.componentCaptured_ = @ \/ h.componentDepth_ = 1]
    ELSE h

\* the text is trimmed and stored in, or appended to, the value on top of
\* the stack; an image path is passed to componentParseCallback_
onCharacterData_overwrite(h, data) ==
    LET trimmed == trim(data)
        top == Last(h.jsonStack_)
    IN  IF h.componentDepth_ = 0 \/ trimmed = <<>> THEN h
        ELSE [h EXCEPT !.root_ = Put(@, top, Str(trimmed)),
                       !.calls = IF is_image(trimmed)
                                 THEN Append(@, trimmed) ELSE @]
onCharacterData_untrimmed(h, data) ==
    LET trimmed == trim(data)
        top == Last(h.jsonStack_)
        current == Get(h.root_, top)
        value ==
            IF current.t = "str" THEN Str(current.s \o trimmed)
            ELSE IF current.t = "obj"
            THEN IF "#text" \in DOMAIN current.m
                 THEN [current EXCEPT
                         !.m["#text"] = Str(current.m["#text"].s \o trimmed)]
                 ELSE [current EXCEPT !.m = emplace(@, "#text", Str(trimmed))]
            ELSE Str(trimmed)
    IN  IF h.componentDepth_ = 0 \/ trimmed = <<>> THEN h
        ELSE [h EXCEPT !.root_ = Put(@, top, value),
                       !.calls = IF is_image(trimmed)
                                 THEN Append(@, data) ELSE @]
onCharacterData(h, data) ==
    LET trimmed == trim(data)
        top == Last(h.jsonStack_)
        current == Get(h.root_, top)
        value ==
            IF current.t = "str" THEN Str(current.s \o trimmed)
            ELSE IF current.t = "obj"
            THEN IF "#text" \in DOMAIN current.m
                 THEN [current EXCEPT
                         !.m["#text"] = Str(current.m["#text"].s \o trimmed)]
                 ELSE [current EXCEPT !.m = emplace(@, "#text", Str(trimmed))]
            ELSE Str(trimmed)
    IN  IF h.componentDepth_ = 0 \/ trimmed = <<>> THEN h
        ELSE [h EXCEPT !.root_ = Put(@, top, value),
                       !.calls = IF is_image(trimmed)
                                 THEN Append(@, trimmed) ELSE @]

\* the handler's fields after a call, and what the call leaves alone
set_handler(h) ==
    /\ componentDepth_' = h.componentDepth_
    /\ componentCaptured_' = h.componentCaptured_
    /\ root_' = h.root_
    /\ jsonStack_' = h.jsonStack_
    /\ parse_calls' = h.calls
    /\ xml_status' = IF h.thrown THEN "error" ELSE xml_status
    /\ UNCHANGED <<hubVars, clientVars, dlVars, fetchVars, chunkVars,
                   json_out>>

NoKids == [n \in Names |-> 0]

\* Expat reports a start tag
startElement(name, atts) ==
    /\ xml_status = "parsing"
    /\ xml_elems < MaxElems
    /\ xml_open # <<>> \/ xml_elems = 0
    /\ xml_open' = Append(xml_open, name)
    /\ xml_elems' = xml_elems + 1
    /\ xml_event' = [op |-> "start", name |-> name, data |-> <<>>]
    /\ LET h == onStartElement(Handler, name, atts)
       IN  /\ set_handler(h)
           /\ capture_at' = IF componentDepth_ = 0 /\ h.componentDepth_ = 1
                            THEN Len(xml_open) ELSE capture_at
           /\ kids' = IF componentDepth_ = 0
                      THEN IF h.componentDepth_ = 1 THEN <<NoKids>> ELSE kids
                      ELSE Append([kids EXCEPT ![Len(kids)][name] = @ + 1],
                                  NoKids)
    /\ UNCHANGED xml_texts

\* Expat reports the end tag of the innermost open element
endElement ==
    /\ xml_status = "parsing"
    /\ xml_open # <<>>
    /\ xml_open' = SubSeq(xml_open, 1, Len(xml_open) - 1)
    /\ xml_event' = [op |-> "end", name |-> Last(xml_open), data |-> <<>>]
    /\ set_handler(onEndElement(Handler))
    /\ kids' = IF componentDepth_ > 0 THEN SubSeq(kids, 1, Len(kids) - 1)
               ELSE kids
    /\ UNCHANGED <<xml_elems, xml_texts, capture_at>>

\* Expat reports character data of the innermost open element
characterData(data) ==
    /\ xml_status = "parsing"
    /\ xml_open # <<>>
    /\ xml_texts < MaxTexts
    /\ xml_texts' = xml_texts + 1
    /\ xml_event' = [op |-> "text", name |-> Last(xml_open),
                     data |-> data]
    /\ set_handler(onCharacterData(Handler, data))
    /\ UNCHANGED <<xml_open, xml_elems, capture_at, kids>>

\* handleData: XML_Parse finds the input not well-formed and the call throws
handleData_error ==
    /\ xml_status = "parsing"
    /\ xml_status' = "error"
    /\ xml_event' = [op |-> "error", name |-> "none", data |-> <<>>]
    /\ UNCHANGED <<hubVars, clientVars, dlVars, fetchVars, chunkVars,
                   componentDepth_,
                   componentCaptured_, root_, jsonStack_, parse_calls,
                   json_out, xml_open, xml_elems, xml_texts, capture_at, kids>>

\* finalize: the end of the input; the document must be complete and a
\* component captured, then root_ is serialized to the JSON file
finalize_result_unchecked(open, elems, captured) ==
    IF open # <<>> \/ elems = 0 THEN "failed" ELSE "finalized"
finalize_result(open, elems, captured) ==
    IF open # <<>> \/ elems = 0 THEN "failed"      \* XML_Parse reports an error
    ELSE IF ~captured THEN "failed"                \* no component found
    ELSE "finalized"

finalize ==
    /\ xml_status = "parsing"
    /\ xml_event' = [op |-> "finalize", name |-> "none", data |-> <<>>]
    /\ xml_status' = finalize_result(xml_open, xml_elems, componentCaptured_)
    /\ IF xml_status' = "finalized" THEN json_out' = <<root_>>
       ELSE UNCHANGED json_out
    /\ UNCHANGED <<hubVars, clientVars, dlVars, fetchVars, chunkVars,
                   componentDepth_,
                   componentCaptured_, root_, jsonStack_, parse_calls,
                   xml_open, xml_elems, xml_texts, capture_at, kids>>

XmlInit ==
    /\ componentDepth_ = 0
    /\ componentCaptured_ = FALSE
    /\ root_ = Obj(NoAtts)
    /\ jsonStack_ = <<>>
    /\ parse_calls = <<>>
    /\ json_out = <<>>
    /\ xml_status = "parsing"
    /\ xml_open = <<>>
    /\ xml_elems = 0
    /\ xml_texts = 0
    /\ xml_event = [op |-> "none", name |-> "none", data |-> <<>>]
    /\ capture_at = NoCapture
    /\ kids = <<>>

XmlNext ==
    \/ \E name \in Names, atts \in AttLists : startElement(name, atts)
    \/ endElement
    \/ \E data \in Texts : characterData(data)
    \/ handleData_error
    \/ finalize

\* =========================================================== chunked feed
\* XmlToJsonDataHandler::handleData is called once per buffer of the
\* response body, so a text run of the document can be cut anywhere.
\* XML_Parse reports the characters of a run that a buffer holds when it
\* reaches the end of that buffer: every handleData call that holds part of
\* the run gives one characterData callback with that part.  The document
\* here is <component>text</component>; chunks.h is the handler after the
\* start tag and the characters fed so far.
ChunkChars == {" ", "1", ".", "p", "n", "g"}
ChunkTexts ==
    UNION {[1..n -> ChunkChars] : n \in 1..MaxText}

\* the handler after construction and after <component>
NewHandler ==
    [componentDepth_ |-> 0, componentCaptured_ |-> FALSE,
     root_ |-> Obj(NoAtts), jsonStack_ |-> <<>>,
     thrown |-> FALSE, calls |-> <<>>]
ChunkStart == onStartElement(NewHandler, "component", NoAtts)

\* handleData with a buffer that holds the next n characters of the run
handleData(n) ==
    /\ n \in 1..(Len(chunks.text) - chunks.pos)
    /\ chunks' = [chunks EXCEPT
                    !.pos = @ + n,
                    !.h = onCharacterData(@, SubSeq(chunks.text,
                                                    chunks.pos + 1,
                                                    chunks.pos + n))]
    /\ UNCHANGED <<hubVars, clientVars, dlVars, fetchVars, xmlVars>>

NoChunks == [text |-> <<>>, pos |-> 0, h |-> ChunkStart]

ChunkInit == chunks = NoChunks

ChunkDraw == \E text \in ChunkTexts : chunks = [NoChunks EXCEPT !.text = text]

ChunkNext == \E n \in 1..MaxText : handleData(n)

Init == HubInit /\ ClientInit /\ DlInit /\ FetchInit /\ XmlInit /\ ChunkInit

\* the chunked feed alone, for every text run of the bounds
ChunkSpecInit ==
    HubInit /\ ClientInit /\ DlInit /\ FetchInit /\ XmlInit /\ ChunkDraw
ChunkSpec == ChunkSpecInit /\ [][ChunkNext]_vars

\* the hub alone and the client alone
HubSpec == Init /\ [][HubNext]_vars
ClientSpec == Init /\ [][ClientNext]_vars

\* the download coordinator alone; a worker of the pool that can take a job
\* takes one, and the fetch of a running job returns or throws
DlSpec == Init /\ [][DlNext]_vars
DlFairness ==
    \A j \in Subs : WF_dlVars(run_job(j)) /\ WF_dlVars(finish_job(j))
DlLiveSpec == Init /\ [][DlNext]_vars /\ DlFairness

\* the fetcher alone
FetchSpec == Init /\ [][FetchNext]_vars

\* the transducer alone
XmlSpec == Init /\ [][XmlNext]_vars

\* The io_context runs every ready handler: an expired reconnect timer and
\* a completed read are eventually handled.
ClientFairness ==
    \A c \in Clients :
        WF_clientVars(on_reconnect_timer(c)) /\ WF_clientVars(on_receive(c))
ClientLiveSpec == Init /\ [][ClientNext]_vars /\ ClientFairness


\* ================================================================ system
\* One managed client connected to the hub, as MinReview.cpp's runClient
\* sets it up: the hub's sessions are this client's connections.  The
\* client's connect() is synchronous: it returns when the hub has started a
\* session for the connection (handle_request, target /ws) and before the
\* hub's accept handler runs.  The steps taken are those of connection
\* set-up, reading and loss; the client never sends a close frame, so the
\* hub sees its connections end with an error.
HubEndpoint == 1

ClientConnecting ==
    \/ connections_[HubEndpoint] = NoClient
    \/ \E c \in Clients : cl[c].timers > 0 /\ cl[c].link # "up"
ClientConnected == \E c \in Clients : cl[c].link = "up"
HandshakePending == \E s \in Sessions : phase[s] = "accepting"

SystemNext ==
    \/ \E id \in ProtocolIds, fn \in Handlers :
          /\ connections_[HubEndpoint] = NoClient /\ handlers_[id] = NoHandler
          /\ register(id, fn)
    \/ (reachable[HubEndpoint] <=> HandshakePending) /\ addConnection(HubEndpoint)
    \/ \E c \in Clients :
          (reachable[HubEndpoint] <=> HandshakePending) /\ on_reconnect_timer(c)
    \/ \E c \in Clients : on_receive(c)
    \/ \E c \in Clients : ~HandshakePending /\ LinkDown(c)
    \/ ~HandshakePending /\ ServerToggle(HubEndpoint)
    \/ \E s \in Sessions :
          /\ reachable[HubEndpoint] /\ ClientConnecting /\ ~HandshakePending
          /\ start(s)
    \/ \E s \in Sessions : ClientConnected /\ on_accept(s)
    \/ \E s \in Sessions : PeerClose(s) /\ link'[s] = "broken"
    \/ \E s \in Sessions : on_read(s)

SystemSpec == Init /\ [][SystemNext]_vars

\* ================================================================ router
\* The application registers and re-registers handlers while the managed
\* clients receive frames.
RouterNext ==
    \/ \E id \in ProtocolIds, fn \in Handlers : register(id, fn)
    \/ \E e \in Endpoints : addConnection(e)
    \/ \E c \in Clients : on_reconnect_timer(c)
    \/ \E c \in Clients : on_receive(c)
    \/ \E c \in Clients : LinkDown(c)
    \/ \E e \in Endpoints : ServerToggle(e)

RouterSpec == Init /\ [][RouterNext]_vars

\* ================================================================ claims

\* C1: on one hub session the messages handed to deliver() are written in
\* the order of the deliver() calls: the messages written so far, followed
\* by the one being written, are a prefix of the messages delivered.
C1_WriteOrder ==
    \A s \in Sessions : IsPrefix(wire[s] \o inflight[s], delivered[s])

C1_Witness == \E s \in Sessions : Len(wire[s]) >= 2 /\ wire[s] = delivered[s]

\* C2: a hub session has at most one async_write outstanding, and it writes
\* the front of its queue; a write is started only by a deliver that found
\* the queue empty or by a successful completion that left the queue
\* non-empty; the front is popped only when its write has completed.
C2_OneWrite ==
    \A s \in Sessions :
        /\ Len(inflight[s]) <= 1
        /\ inflight[s] # <<>> =>
              /\ write_queue_[s] # <<>>
              /\ Head(inflight[s]) = Head(write_queue_[s])

C2_Step ==
    \A s \in Sessions :
        /\ (inflight'[s] # <<>> /\ inflight'[s] # inflight[s]) =>
              \/ write_queue_[s] = <<>> /\ Len(write_queue_'[s]) = 1
              \/ /\ wire'[s] = Append(wire[s], Head(write_queue_[s]))
                 /\ write_queue_'[s] # <<>>
        /\ Len(write_queue_'[s]) < Len(write_queue_[s]) =>
              /\ inflight[s] # <<>>
              /\ write_queue_'[s] = Tail(write_queue_[s])
              /\ wire'[s] = Append(wire[s], Head(write_queue_[s]))

\* C2: the single-writer discipline, in every state and at every step.
C2_SingleWriter == []C2_OneWrite /\ [][C2_Step]_vars

C2_Witness ==
    \E s \in Sessions : inflight[s] # <<>> /\ Len(write_queue_[s]) >= 2

C4_Rescheduled ==
    cl_event.res \in {"failed", "disconnect"} =>
        /\ cl[cl_event.c].timers = 1
        /\ cl[cl_event.c].delay = ReconnectDelay

C4_Reconnects ==
    \A c \in Clients :
        []<>(cl[c].ep = 0 \/ ~reachable[cl[c].ep] \/ cl[c].link = "up")

\* C4: a reconnect is always rescheduled with the fixed delay, and the
\* session reconnects whenever its server stays reachable.
C4_NeverGivesUp == []C4_Rescheduled /\ C4_Reconnects

C4_Witness ==
    /\ cl_event.op = "reconnect"
    /\ cl_event.res = "connected"
    /\ cl[cl_event.c].cb

\* C5: a failed write on a session moves it to the reconnect path, as a
\* failed read does: after a send that threw, a reconnect is pending.
C5_WriteFailureReconnects ==
    cl_event.op = "send" /\ cl_event.res = "threw" =>
        cl[cl_event.c].timers > 0

\* C6: a client session has at most one read outstanding and at most one
\* reconnect timer pending, and never both: no reconnect is pending while
\* the session is connected with a read armed.
C6_OneAttempt ==
    \A c \in Clients :
        /\ cl[c].reads <= 1
        /\ cl[c].timers <= 1
        /\ cl[c].reads + cl[c].timers <= 1

C6_Witness ==
    \E c \in Clients :
        cl[c].reads = 1 /\ cl[c].link = "up" /\ cl[c].delay = ReconnectDelay

\* C7: removal is terminal: only a session that its endpoint's map entry
\* still names makes a reconnect attempt or handles a read.
C7_RemovalTerminal ==
    cl_event.op \in {"reconnect", "read"} =>
        connections_[cl[cl_event.c].ep] = cl_event.c

\* C8: an endpoint's entry names a session of that endpoint; the entry only
\* changes by removal or by an addConnection that found no entry, which is
\* also the only step that constructs a session: an addConnection for an
\* endpoint that has a session changes nothing, and a reconnect keeps it.
C8_Entries ==
    \A e \in Endpoints :
        connections_[e] # NoClient =>
            connections_[e] <= created /\ cl[connections_[e]].ep = e

C8_Step ==
    /\ \A e \in Endpoints :
          connections_[e] # NoClient =>
              connections_'[e] \in {connections_[e], NoClient}
    /\ created' # created =>
          \E e \in Endpoints :
              /\ connections_[e] = NoClient
              /\ connections_'[e] = created'
              /\ created' = created + 1
    /\ (cl_event'.op = "add" /\ cl_event'.res = "exists"
            /\ cl_event' # cl_event) =>
          cl' = cl /\ connections_' = connections_

\* C8: one session per endpoint in the map, in every state and at every step.
C8_OneSessionPerEndpoint == []C8_Entries /\ [][C8_Step]_vars

C8_Witness ==
    /\ cl_event.op = "add"
    /\ cl_event.res = "exists"
    /\ \E c \in Clients : cl[c].ep # 0 /\ connections_[cl[c].ep] # c

\* C9: while a broadcast runs the registry does not change, and the
\* sessions it has served each hold one copy; when it has ended, exactly
\* the sessions registered when it began hold one copy each and no other
\* session holds any.
C9_BroadcastAtomic ==
    /\ mutex_ = "broadcast" =>
          /\ sessions_ = bcast.snap
          /\ bcast.done \subseteq bcast.snap
          /\ \A s \in Sessions :
                Count(delivered[s], bcast.msg) =
                    IF s \in bcast.done THEN 1 ELSE 0
    /\ \A m \in DOMAIN bcastLog :
          /\ bcastLog[m].done = bcastLog[m].snap
          /\ \A s \in Sessions :
                Count(delivered[s], m) =
                    IF s \in bcastLog[m].snap THEN 1 ELSE 0

C9_Witness ==
    \E m \in DOMAIN bcastLog :
        /\ Cardinality(bcastLog[m].snap) >= 2
        /\ bcastLog[m].snap # sessions_

\* C10: every registered session has its read loop running.
C10_RegistryLive == \A s \in sessions_ : reads[s] > 0

\* C12: every registered hub session has its ping loop running with exactly
\* one ping timer or ping pending, no session ever has more than one, an
\* armed ping timer is set to the fixed 54 s period, a successful ping
\* re-arms the timer with that period, and a failed ping removes the
\* session from the registry and leaves its ping loop stopped.
C12_Pending ==
    \A s \in Sessions :
        /\ ping[s].waits + ping[s].pings <= 1
        /\ ping[s].waits > 0 => ping_delay[s] = 54
        /\ s \in sessions_ => ping[s].waits + ping[s].pings = 1

C12_Step ==
    \A s \in Sessions :
        (ping[s].pings = 1 /\ ping'[s].pings = 0) =>
            IF link[s] = "up"
            THEN ping'[s].waits = 1 /\ ping_delay'[s] = 54
            ELSE s \notin sessions_' /\ ping'[s] = NoPing

C12_PingLoop == []C12_Pending /\ [][C12_Step]_vars

\* a session that was pinged successfully and re-armed, and another whose
\* ping failed
C12_Witness ==
    \E s, t \in Sessions :
        /\ s \in sessions_ /\ ping[s].waits = 1 /\ link[s] = "up"
        /\ phase[t] = "open" /\ t \notin sessions_ /\ ping[t] = NoPing
        /\ link[t] = "closed"

\* C11: once the client is connected again after a read failure, the hub
\* registry holds one session for it: the session of the connection that
\* failed is not registered next to the session of the new connection.
C11_NoDuplicateJoin ==
    ClientConnected => Cardinality(sessions_) <= 1

\* C13: a completion envelope (protocol_id 2) read from a registered session
\* is re-broadcast: once the hub has handled one, a message has been handed
\* to deliver() on the registered sessions, the sender's among them.
C13_Rebroadcast ==
    hub_event.res = "review_result" => delivered[hub_event.s] # <<>>

\* C14: on a hub session and on a client session at most one read is
\* outstanding; the handler of a completed read handles its frame as one
\* step and arms exactly one next read when it is done, and arms none when
\* the read ended with an error.
FrameResults ==
    {"parse_error", "ignored", "missing_fields", "echo", "review_result",
     "unsupported", "dropped", "simple", "handled", "nohandler",
     "handler_threw"}

C14_OneRead ==
    /\ \A s \in Sessions : reads[s] <= 1
    /\ \A c \in Clients : cl[c].reads <= 1

C14_Step ==
    /\ hub_event' # hub_event =>
          LET s == hub_event'.s
          IN  IF hub_event'.res \in FrameResults
              THEN reads[s] = 1 /\ reads'[s] = 1
              ELSE reads[s] = 1 /\ reads'[s] = 0
    /\ (cl_event' # cl_event /\ cl_event'.op = "read") =>
          LET c == cl_event'.c
          IN  IF cl_event'.res \in FrameResults
              THEN cl[c].reads = 1 /\ cl'[c].reads = 1
              ELSE cl[c].reads = 1 /\ cl'[c].reads = 0

C14_InOrder == []C14_OneRead /\ [][C14_Step]_vars

\* both sides have handled a frame and wait for the next one
C14_Witness ==
    /\ hub_event.res \in FrameResults /\ reads[hub_event.s] = 1
    /\ cl_event.op = "read" /\ cl_event.res \in FrameResults
    /\ cl[cl_event.c].reads = 1

\* C15: a frame that is not JSON, or has no protocol_id or no data member,
\* is dropped on both sides: the hub delivers nothing and the client calls
\* no handler for it, the registry, the connection and the reconnect timer
\* are left as they were, and one read is outstanding again afterwards.
DecodeError(f) == f.json # "object" \/ f.id = 0 \/ f.data = "absent"

C15_Decode ==
    \A f \in Frames :
        DecodeError(f) =>
            /\ on_read_frame(f) \in {"parse_error", "ignored", "missing_fields"}
            /\ receiveData_frame(handlers_, f) =
                   [res |-> "dropped", id |-> 0, h |-> NoHandler]

C15_Step ==
    /\ (hub_event' # hub_event /\
        hub_event'.res \in {"parse_error", "ignored", "missing_fields"}) =>
          LET s == hub_event'.s
          IN  /\ sessions_' = sessions_ /\ link'[s] = "up"
              /\ delivered' = delivered /\ posted' = posted
              /\ reads'[s] = 1
    /\ (cl_event' # cl_event /\ cl_event'.op = "read" /\
        cl_event'.res = "dropped") =>
          LET c == cl_event'.c
          IN  /\ cl_event'.h = NoHandler
              /\ cl'[c] = cl[c] /\ cl[c].link = "up"
              /\ cl[c].reads = 1 /\ cl[c].timers = 0

C15_DecodeErrorDropped == []C15_Decode /\ [][C15_Step]_vars

\* a frame was dropped on each side while handlers were registered, and both
\* connections go on reading
C15_Witness ==
    /\ hub_event.res \in {"parse_error", "missing_fields"}
    /\ hub_event.s \in sessions_ /\ reads[hub_event.s] = 1
    /\ cl_event.op = "read" /\ cl_event.res = "dropped"
    /\ cl[cl_event.c].link = "up" /\ cl[cl_event.c].reads = 1
    /\ \A id \in ProtocolIds : handlers_[id] # NoHandler

\* C16: an envelope whose protocol_id has no handler is reported and
\* nothing else happens: the client's router calls no handler and keeps its
\* table, the hub delivers nothing, neither side drops the connection or
\* stops reading, and an envelope with a registered id read afterwards is
\* handed to the handler registered for it.
C16_Lookup ==
    /\ \A id \in FrameIds :
          handlers_[id] = NoHandler =>
              handleProtocol(handlers_, id) =
                  [res |-> "nohandler", id |-> id, h |-> NoHandler]
    /\ \A f \in Frames :
          (~DecodeError(f) /\ f.id \notin {1, 2}) =>
              on_read_frame(f) = "unsupported"

C16_Step ==
    /\ (cl_event' # cl_event /\ cl_event'.op = "read" /\
        cl_event'.res = "nohandler") =>
          LET c == cl_event'.c
          IN  /\ handlers_[cl_event'.id] = NoHandler
              /\ cl_event'.h = NoHandler
              /\ handlers_' = handlers_
              /\ cl'[c] = cl[c] /\ cl[c].link = "up"
              /\ cl[c].reads = 1 /\ cl[c].timers = 0
    /\ (cl_event' # cl_event /\ cl_event'.op = "read" /\
        cl_event'.res = "handled") =>
          /\ handlers_[cl_event'.id] # NoHandler
          /\ cl_event'.h = handlers_[cl_event'.id]
    /\ (hub_event' # hub_event /\ hub_event'.res = "unsupported") =>
          LET s == hub_event'.s
          IN  /\ sessions_' = sessions_ /\ link'[s] = "up"
              /\ delivered' = delivered /\ posted' = posted
              /\ reads'[s] = 1

C16_UnknownIdNoOp == []C16_Lookup /\ [][C16_Step]_vars

\* an id without a handler was dispatched on the client while another id
\* had one, the hub read an unsupported id, and both go on reading
C16_Witness ==
    /\ cl_event.op = "read" /\ cl_event.res = "nohandler"
    /\ \E id \in ProtocolIds : handlers_[id] # NoHandler
    /\ cl[cl_event.c].link = "up" /\ cl[cl_event.c].reads = 1
    /\ hub_event.res = "unsupported"
    /\ hub_event.s \in sessions_ /\ reads[hub_event.s] = 1

\* C17: the router's table holds for every id the handler registered last
\* for that id, and none for an id never registered; a dispatch calls that
\* handler, once, and no handler registered earlier for the id or
\* registered for another id.
C17_Table ==
    \A id \in FrameIds :
        handlers_[id] = IF reg_log[id] = <<>> THEN NoHandler
                        ELSE Last(reg_log[id])

C17_Step ==
    (cl_event' # cl_event /\ cl_event'.op = "read" /\
     cl_event'.res = "handled") =>
        /\ reg_log[cl_event'.id] # <<>>
        /\ cl_event'.h = Last(reg_log[cl_event'.id])

C17_RegisterOverwrites == []C17_Table /\ [][C17_Step]_vars

\* an id was registered twice with different handlers while another id was
\* registered too, and an envelope with the id was dispatched to the second
C17_Witness ==
    /\ cl_event.op = "read" /\ cl_event.res = "handled"
    /\ Len(reg_log[cl_event.id]) = 2
    /\ reg_log[cl_event.id][1] # reg_log[cl_event.id][2]
    /\ cl_event.h = reg_log[cl_event.id][2]
    /\ \E id \in ProtocolIds : id # cl_event.id /\ handlers_[id] # NoHandler

\* C18: no two queued or running download jobs share a URL; a submission
\* is dropped exactly when a job for its URL is queued or running, a
\* dropped submission creates no job and its callback is never invoked, so
\* a URL submitted again while its job runs is fetched once and reported
\* once.
Pending(j) == dl_subs[j].status \in {"queued", "running"}

C18_Unique ==
    /\ \A i, j \in 1..Len(dl_subs) :
          (i # j /\ Pending(i) /\ Pending(j)) => dl_subs[i].url # dl_subs[j].url
    /\ \A j \in 1..Len(dl_subs) :
          /\ dl_subs[j].status = "dropped" => dl_subs[j].calls = 0
          /\ dl_subs[j].calls <= 1

C18_Step ==
    Len(dl_subs') = Len(dl_subs) + 1 =>
        LET new == Last(dl_subs')
        IN  /\ new.status \in {"dropped", "queued"}
            /\ new.status = "dropped" <=>
                   \E j \in 1..Len(dl_subs) :
                       Pending(j) /\ dl_subs[j].url = new.url

C18_Dedup == []C18_Unique /\ [][C18_Step]_vars

\* a URL was submitted again while its job was running: the job has
\* finished with one callback, the second submission was dropped
C18_Witness ==
    \E i, j \in 1..Len(dl_subs) :
        /\ i < j /\ dl_subs[i].url = dl_subs[j].url
        /\ dl_subs[i].status = "succeeded" /\ dl_subs[i].calls = 1
        /\ dl_subs[j].status = "dropped" /\ dl_subs[j].calls = 0
        /\ \A k \in 1..Len(dl_subs) :
              dl_subs[k].url = dl_subs[i].url => k \in {i, j}

\* C19: every accepted download job finishes, as succeeded or failed, with
\* its callback invoked exactly once; the active set holds exactly the URLs
\* of the jobs not yet finished, so a finished job's URL has left it whether
\* the job succeeded or failed, and a submission of that URL made afterwards
\* is accepted as a new job.
Finished(j) == dl_subs[j].status \in {"succeeded", "failed"}

C19_Released ==
    /\ dl_active = {dl_subs[j].url : j \in {i \in 1..Len(dl_subs) : Pending(i)}}
    /\ \A j \in 1..Len(dl_subs) :
          /\ Finished(j) => dl_subs[j].calls = 1
          /\ Pending(j) => dl_subs[j].calls = 0

C19_Step ==
    /\ Len(dl_subs') = Len(dl_subs) + 1 =>
          (Last(dl_subs').url \notin dl_active =>
               Last(dl_subs').status = "queued")
    /\ \A j \in 1..Len(dl_subs) :
          (Pending(j) /\ ~Pending(j)') =>
              /\ Finished(j)'
              /\ dl_subs'[j].calls = dl_subs[j].calls + 1
              /\ dl_subs[j].url \notin dl_active'

C19_Live ==
    \A j \in Subs :
        (j <= Len(dl_subs) /\ Pending(j)) ~>
            (j <= Len(dl_subs) /\ Finished(j) /\ dl_subs[j].calls = 1 /\
             dl_subs[j].url \notin dl_active)

C19_Completes == []C19_Released /\ [][C19_Step]_vars /\ C19_Live

\* a job failed, its callback was invoked once, and a later submission of
\* the same URL became a job that finished too
C19_Witness ==
    \E i, j \in 1..Len(dl_subs) :
        /\ i < j /\ dl_subs[i].url = dl_subs[j].url
        /\ dl_subs[i].status = "failed" /\ dl_subs[i].calls = 1
        /\ dl_subs[j].status = "succeeded" /\ dl_subs[j].calls = 1
        /\ dl_subs[i].url \notin dl_active

\* C20: the fetcher decides on the status when the header is complete and
\* before it takes any body byte: a resumed fetch goes on with 206, returns
\* at once with 416 and throws on any other status; a fresh fetch goes on
\* with 200 and throws on any other status; a fetch that threw on the
\* status or returned on 416 has written no byte to the file and handed
\* none to the data handler.
Fatal(f) ==
    f.status # 0 /\ IF f.resume THEN f.status \notin {206, 416}
                    ELSE f.status # 200

C20_Decided ==
    fetch.kind = "xml" =>
    /\ Fatal(fetch) =>
          /\ fetch.pc = "threw" /\ fetch.error = "status"
          /\ fetch.written = <<>> /\ fetch.fed = <<>>
    /\ (fetch.resume /\ fetch.status = 416) =>
          fetch.pc = "returned" /\ fetch.written = <<>> /\ fetch.fed = <<>>
    /\ (fetch.written # <<>> \/ fetch.fed # <<>>) =>
          fetch.status = IF fetch.resume THEN 206 ELSE 200

C20_Step ==
    (fetch.kind = "xml" /\ fetch.pc = "loop"
     /\ fetch.status = 0 /\ fetch'.status # 0) =>
        IF Fatal(fetch') \/ (fetch.resume /\ fetch'.status = 416)
        THEN /\ fetch'.pc = IF Fatal(fetch') THEN "threw" ELSE "returned"
             /\ file_size' = file_size
        ELSE /\ fetch'.error # "status"
             /\ fetch'.error = "none" =>
                   /\ fetch'.pc = IF resp'.left = 0 THEN "returned" ELSE "loop"
                   /\ file_size' = file_size + (resp.left - resp'.left)

C20_StatusFirst == []C20_Decided /\ [][C20_Step]_vars

\* a resumed fetch threw on its status although body bytes had arrived
\* together with the header: none was written
C20_Witness ==
    /\ fetch.kind = "xml"
    /\ fetch.pc = "threw" /\ Fatal(fetch)
    /\ resp.left < resp.sent
    /\ fetch.written = <<>> /\ fetch.resume
    /\ file_size > 0

\* C21: a resumed fetch ends with the same file as a fresh one.  The local
\* file is at all times a prefix of the resource; a fetch that found the
\* first N bytes, was answered 206 with the bytes from N on and took the
\* whole body leaves the file equal to the resource, exactly as a fetch that
\* found no byte and was answered 200 with the whole resource, whatever the
\* split of the body over the reads; each turn of the loop appends the bytes
\* it wrote to the end of the file.
C21_Same ==
    /\ IsPrefix(output_file, Resource)
    /\ (/\ fetch.pc = "returned"
        /\ fetch.status = (IF fetch.resume THEN 206 ELSE 200)
        /\ resp.left = 0) => output_file = Resource

C21_Step ==
    fetch'.pc # "idle" =>
        /\ IsPrefix(output_file, output_file')
        /\ fetches' = fetches =>
             output_file' = output_file \o
                 SubSeq(fetch'.written, Len(fetch.written) + 1,
                        Len(fetch'.written))

C22_Unsatisfiable ==
    (fetch.resume /\ fetch.status = 416) =>
        /\ fetch.pc = "returned"
        /\ fetch.written = <<>>
        /\ Len(output_file) = fetch.existing

\* C23: the request has a Range header exactly when the local file was not
\* empty when the fetch started; its value is bytes=<size of that file>-.
C23_Range ==
    fetch.pc # "idle" =>
        /\ (fetch.range # <<>>) <=> (fetch.existing > 0)
        /\ fetch.existing > 0 =>
               fetch.range = <<"bytes=", fetch.existing, "-">>

C23_Step ==
    fetches' # fetches =>
        /\ fetch'.existing = Len(output_file)
        /\ fetch'.resume = (Len(output_file) > 0)
        /\ Len(output_file) = 0 => fetch'.range = <<>>
        /\ Len(output_file) > 0 =>
               fetch'.range = <<"bytes=", Len(output_file), "-">>

C23_RangeHeader == []C23_Range /\ [][C23_Step]_vars

\* a request for the bytes from position 2 on, the local file holding two
\* bytes, made by a downloader whose first request had no Range header
C23_Witness ==
    /\ fetch.pc = "loop" /\ fetch.existing = 2
    /\ fetch.range = <<"bytes=", 2, "-">>
    /\ Len(output_file) = 2 /\ fetches = 2

\* C24: in a report fetch with a data handler attached, every body chunk is
\* handed to the handler and then written to the file, in the order of its
\* arrival and before the next read: when a read starts, the bytes written
\* in this fetch are the bytes handed to the handler, and they are all the
\* body bytes that have arrived.  Only the chunk on which handleData threw
\* was handed over and not written.  Without a handler nothing is handed
\* over.
C24_Fed ==
    /\ fetch.data_handler =>
          /\ fetch.kind = "xml"
          /\ IsPrefix(fetch.written, fetch.fed)
          /\ IsPrefix(fetch.fed, resp.body)
          /\ fetch.error # "transduction" =>
                /\ fetch.fed = fetch.written
                /\ fetch.written = SubSeq(resp.body, 1, resp.sent - resp.left)
          /\ fetch.fed # fetch.written =>
                /\ fetch.pc = "threw"
                /\ Len(fetch.fed) = Len(fetch.written) + 1
    /\ ~fetch.data_handler => fetch.fed = <<>>

C24_Step ==
    (fetch.pc = "loop" /\ fetch'.data_handler /\ fetch'.pc = "loop") =>
        /\ fetch'.fed = fetch.fed \o
              SubSeq(resp.body, resp.sent - resp.left + 1,
                     resp.sent - resp'.left)
        /\ fetch'.written = fetch'.fed

C25_Kept ==
    fetch.error = "transduction" =>
        /\ fetch.pc = "threw" /\ fetch.data_handler
        /\ output_file = fetch.written

C25_Step ==
    /\ IsPrefix(output_file, output_file')
    /\ (fetch.error = "none" /\ fetch'.error = "transduction") =>
          /\ IsPrefix(fetch.written, fetch'.written)
          /\ output_file' = output_file \o
                SubSeq(fetch'.written, Len(fetch.written) + 1,
                       Len(fetch'.written))

C25_FileKept == []C25_Kept /\ [][C25_Step]_vars

\* handleData threw on the third byte after two had been written
C25_Witness ==
    /\ fetch.error = "transduction" /\ fetch.pc = "threw"
    /\ fetch.fed = <<1, 2, 3>> /\ fetch.written = <<1, 2>>
    /\ output_file = <<1, 2>>

\* C26: the capture happens at most once in a document.  Once the close tag
\* of the first component has brought the depth back to zero, the depth is
\* zero and the stack empty for good, and no start tag, end tag or text,
\* that of a later component included, changes root_, the depth, the stack
\* or the flag or calls componentParseCallback_; the place where the capture
\* started is set once.
C26_Closed ==
    componentCaptured_ => componentDepth_ = 0 /\ jsonStack_ = <<>>

C26_Step ==
    /\ componentCaptured_ =>
          UNCHANGED <<root_, componentDepth_, jsonStack_, componentCaptured_,
                      parse_calls>>
    /\ capture_at # NoCapture => capture_at' = capture_at

C26_CaptureOnce == []C26_Closed /\ [][C26_Step]_vars

\* the start tag of a second component, a sibling of the captured one, has
\* been reported
C26_Witness ==
    /\ componentCaptured_ /\ capture_at = 1
    /\ xml_event = [op |-> "start", name |-> "component", data |-> <<>>]
    /\ Len(xml_open) = 2 /\ componentDepth_ = 0

\* C27 (as stated): the capture starts only at a component element that has
\* no enclosing open element.
C27_TopLevelOnly == capture_at \in {NoCapture, 0}

\* C27 (amended): every event is ignored until the first start tag named
\* component; the capture starts at that tag whatever the number of open
\* elements around it, and at no other tag.
C27_Ignored ==
    capture_at = NoCapture =>
        /\ componentDepth_ = 0 /\ jsonStack_ = <<>> /\ ~componentCaptured_
        /\ root_ = Obj(NoAtts) /\ parse_calls = <<>>

C27_Step ==
    (componentDepth_ = 0 /\ componentDepth_' > 0)
        <=> /\ xml_elems' # xml_elems
            /\ Last(xml_open') = "component"
            /\ componentDepth_ = 0 /\ ~componentCaptured_

C27_FirstComponent == []C27_Ignored /\ [][C27_Step]_vars

\* the capture has started at a component inside an open element a
C27_Witness ==
    /\ capture_at = 1 /\ componentDepth_ = 1
    /\ xml_open = <<"a", "component">>

\* C28: the stack has as many entries as the depth counts, in every state;
\* the depth is positive exactly from the component's start tag to its end
\* tag, where it is the number of open elements from the component inwards;
\* the flag becomes true exactly at the end tag that brings the depth from
\* one to zero and stays true.
C28_Depth ==
    /\ Len(jsonStack_) = componentDepth_
    /\ componentDepth_ > 0 <=> (capture_at # NoCapture /\ ~componentCaptured_)
    /\ componentDepth_ > 0 => componentDepth_ = Len(xml_open) - capture_at
    /\ componentCaptured_ => capture_at # NoCapture

C28_Step ==
    /\ (~componentCaptured_ /\ componentCaptured_')
          <=> (Len(xml_open') < Len(xml_open) /\ componentDepth_ = 1)
    /\ (Len(xml_open') < Len(xml_open) /\ componentDepth_ = 1)
          => componentDepth_' = 0
    /\ componentCaptured_ => componentCaptured_'

C28_StackIsDepth == []C28_Depth /\ [][C28_Step]_vars

\* three captured elements are open
C28_Witness ==
    /\ componentDepth_ = 3 /\ Len(jsonStack_) = 3 /\ capture_at = 1

\* C29: of the children started so far under an open captured element, the k
\* that share a name are under that name as one value if k = 1 and as an
\* array of k entries if k >= 2.
C29_Siblings ==
    \A j \in 1..Len(jsonStack_) : \A n \in Names :
        LET v == Get(root_, jsonStack_[j])
            k == IF j <= Len(kids) THEN kids[j][n] ELSE 0
        IN  /\ k = 1 => n \in DOMAIN v.m /\ v.m[n].t # "arr"
            /\ k >= 2 => /\ n \in DOMAIN v.m /\ v.m[n].t = "arr"
                         /\ Len(v.m[n].a) = k

\* C30: in the JSON written, no element inside the captured component that
\* has text and neither attributes nor children is an object holding the
\* text: it is the plain string.
text_only(v) == v.t = "obj" /\ DOMAIN v.m = {"#text"}

RECURSIVE has_text_only(_)
has_text_only(v) ==
    IF v.t = "obj"
    THEN \E k \in DOMAIN v.m : text_only(v.m[k]) \/ has_text_only(v.m[k])
    ELSE IF v.t = "arr"
    THEN \E i \in 1..Len(v.a) : text_only(v.a[i]) \/ has_text_only(v.a[i])
    ELSE FALSE

C30_PlainText == json_out # <<>> => ~has_text_only(json_out[1])

\* C31: the text of a captured element goes under the key #text of the
\* element's object, after the text already there; the element stays an
\* object and its other entries, attributes and children, stay as they are.
\* Text that is white space only, or outside the capture, changes nothing.
C31_Objects ==
    \A j \in 1..Len(jsonStack_) : Get(root_, jsonStack_[j]).t = "obj"

C31_Step ==
    xml_texts' # xml_texts =>
        IF componentDepth_ > 0 /\ trim(xml_event'.data) # <<>>
        THEN LET top == Last(jsonStack_)
                 v == Get(root_, top)
                 w == Get(root_', top)
                 old == IF "#text" \in DOMAIN v.m THEN v.m["#text"].s
                        ELSE <<>>
             IN  /\ w.t = "obj"
                 /\ DOMAIN w.m = DOMAIN v.m \cup {"#text"}
                 /\ w.m["#text"] = Str(old \o trim(xml_event'.data))
                 /\ \A k \in DOMAIN v.m \ {"#text"} : w.m[k] = v.m[k]
                 /\ jsonStack_' = jsonStack_
        ELSE root_' = root_ /\ jsonStack_' = jsonStack_

C31_TextKey == []C31_Objects /\ [][C31_Step]_vars

\* <a>1<b/> 2</a> inside the component: a holds the two runs of text and
\* the child b
C31_Witness ==
    /\ "a" \in DOMAIN root_.m
    /\ root_.m["a"].t = "obj"
    /\ DOMAIN root_.m["a"].m = {"#text", "b"}
    /\ root_.m["a"].m["#text"] = Str(<<"1", "2">>)
    /\ root_.m["a"].m["b"] = Obj(NoAtts)

\* C32: a character data event calls componentParseCallback_ exactly when
\* the capture is active and its trimmed text ends in .jpg, .jpeg or .png,
\* once and with the trimmed text; the calls are in the order of the events,
\* and no other event calls it.
C32_Image(t) ==
    \E suffix \in {<<".", "j", "p", "g">>, <<".", "j", "p", "e", "g">>,
                   <<".", "p", "n", "g">>} :
        /\ Len(t) >= Len(suffix)
        /\ \A i \in 1..Len(suffix) : t[Len(t) - Len(suffix) + i] = suffix[i]

C32_Step ==
    IF xml_texts' # xml_texts /\ componentDepth_ > 0
       /\ C32_Image(trim(xml_event'.data))
    THEN parse_calls' = Append(parse_calls, trim(xml_event'.data))
    ELSE parse_calls' = parse_calls

C32_Callback == [][C32_Step]_vars

\* two image paths were found in the component, a text run outside it was not
\* reported
C32_Witness ==
    /\ Len(parse_calls) = 1
    /\ parse_calls[1] = <<"p", ".", "p", "n", "g">>
    /\ xml_texts = 2 /\ capture_at = 1 /\ componentDepth_ > 0

\* C33: finalize writes the JSON only if a component was captured and no
\* element is open; it fails if none was captured or if the input ended
\* inside the captured component.  The JSON is written by finalize alone and
\* is the captured value.
C33_Written ==
    /\ json_out # <<>> =>
          /\ xml_status = "finalized" /\ json_out = <<root_>>
          /\ componentCaptured_ /\ componentDepth_ = 0 /\ jsonStack_ = <<>>
    /\ xml_status = "finalized" => json_out # <<>>

C33_Step ==
    /\ json_out' # json_out =>
          xml_status = "parsing" /\ xml_event'.op = "finalize"
    /\ (xml_status = "parsing" /\ xml_status' \in {"failed", "finalized"}
        /\ (~componentCaptured_ \/ componentDepth_ > 0)) =>
          xml_status' = "failed" /\ json_out' = json_out

C33_Finalize == []C33_Written /\ [][C33_Step]_vars

\* finalize failed because the input ended inside the captured component
C33_Witness ==
    /\ xml_status = "failed" /\ componentDepth_ = 2
    /\ capture_at # NoCapture /\ json_out = <<>>

\* C34: a step taken while holding mutex_ (a step of broadcast) starts no
\* read, write or ping and completes none: it only posts; and sessions_ is
\* changed only by a handler that found the mutex free, never by the holder.
C34_Holder == mutex_ = "broadcast" /\ (bcast' # bcast \/ mutex_' # mutex_)

C34_Step ==
    /\ (mutex_' # mutex_ \/ bcast' # bcast) =>
          /\ inflight' = inflight /\ reads' = reads /\ ping' = ping
          /\ write_queue_' = write_queue_ /\ wire' = wire
          /\ sessions_' = sessions_
    /\ C34_Holder =>
          \A s \in Sessions : IsPrefix(posted[s], posted'[s])
    /\ sessions_' # sessions_ => mutex_ = "free" /\ mutex_' = "free"

C34_NoIoUnderLock == [][C34_Step]_vars

\* the broadcast holds the mutex and has posted a delivery to a session
\* whose write has not been started
C34_Witness ==
    /\ mutex_ = "broadcast"
    /\ \E s \in bcast.done :
          /\ posted[s] # <<>> /\ Last(posted[s]) = bcast.msg
          /\ inflight[s] = <<>> /\ write_queue_[s] = <<>>

\* C39: when a write of a session completes with an error, the session is
\* taken out of sessions_, the message stays at the front of write_queue_
\* and no write is started; from then on the queue only grows at its back,
\* no write is outstanding and nothing more reaches the peer.
C39_WriteFailed(s) == write_queue_[s] # <<>> /\ inflight[s] = <<>>

C39_Removed == \A s \in Sessions : C39_WriteFailed(s) => s \notin sessions_

C39_Step ==
    \A s \in Sessions :
        /\ (link[s] # "up" /\ posted'[s] = posted[s]
            /\ inflight'[s] # inflight[s]) =>
              /\ inflight'[s] = <<>>
              /\ write_queue_[s] # <<>>
              /\ write_queue_'[s] = write_queue_[s]
              /\ wire'[s] = wire[s]
              /\ s \notin sessions_'
        /\ C39_WriteFailed(s) =>
              /\ inflight'[s] = <<>>
              /\ IsPrefix(write_queue_[s], write_queue_'[s])
              /\ wire'[s] = wire[s]

C39_NoWriteAfterError == []C39_Removed /\ [][C39_Step]_vars

\* after the failed write of the first message a second one was delivered:
\* it sits behind the first and no write is outstanding
C39_Witness ==
    \E s \in Sessions :
        /\ C39_WriteFailed(s) /\ Len(write_queue_[s]) = 2
        /\ posted[s] = <<>> /\ link[s] = "broken"

\* C40: a session enters sessions_ only in the step that completes its
\* accept without error, and so at most once; its ping timer and its first
\* read are armed in that same step, after the join.  A session whose accept
\* has not completed, or has failed, is not in sessions_, has no read and no
\* ping timer armed, and was handed no message.
C40_NotAccepted ==
    \A s \in Sessions :
        phase[s] # "open" =>
            /\ s \notin sessions_
            /\ reads[s] = 0 /\ ping[s] = NoPing
            /\ delivered[s] = <<>> /\ posted[s] = <<>>
            /\ write_queue_[s] = <<>> /\ wire[s] = <<>>

C40_Step ==
    \A s \in Sessions :
        /\ (s \notin sessions_ /\ s \in sessions_') =>
              /\ phase[s] = "accepting" /\ phase'[s] = "open"
              /\ link[s] = "up"
              /\ reads'[s] = 1 /\ ping'[s].waits = 1
        /\ phase[s] \in {"open", "refused"} => phase'[s] = phase[s]
        /\ (phase[s] = "accepting" /\ phase'[s] = "open") => s \in sessions_'

C40_JoinAfterAccept == []C40_NotAccepted /\ [][C40_Step]_vars

\* the accept of one session failed; a broadcast made afterwards reached the
\* other session only
C40_Witness ==
    \E s, t \in Sessions :
        /\ phase[s] = "refused" /\ phase[t] = "open"
        /\ \E m \in DOMAIN bcastLog : bcastLog[m].done = {t}
        /\ delivered[t] # <<>> /\ delivered[s] = <<>>

\* C36: a fetch returns (reports success) only after the response header
\* was decoded and its status accepted: 200 on a fresh fetch, 206 or 416 on
\* a resumed one.  A connection closed before the header is complete does not
\* end the fetch as a success.
C36_Accepted(f) ==
    /\ f.header_done
    /\ IF f.resume THEN f.status \in {206, 416} ELSE f.status = 200

C36_StatusFirst == fetch.pc = "returned" => C36_Accepted(fetch)

\* C37: the transducer is created only by a report fetch that found the
\* local file empty or absent; it is fed the resource from its first byte
\* on.  A resumed fetch creates no transducer, feeds nothing and writes no
\* JSON; a fetch of the plain downloader never does.
C37_FreshOnly ==
    /\ fetch.data_handler =>
          fetch.kind = "xml" /\ fetch.existing = 0 /\ ~fetch.resume
    /\ ~fetch.data_handler => fetch.fed = <<>> /\ ~fetch.json
    /\ IsPrefix(fetch.fed, Resource)
    /\ fetch.json => fetch.pc = "returned" /\ fetch.fed = fetch.written

C37_Step ==
    (fetch.pc = "loop" /\ fetch.resume) =>
        /\ fetch'.fed = <<>> /\ ~fetch'.data_handler /\ ~fetch'.json

C37_NoTransducerOnResume == []C37_FreshOnly /\ [][C37_Step]_vars

\* a report left incomplete by a first fetch was completed by a resumed
\* one, which fed no byte to a transducer and wrote no JSON
C37_Witness ==
    /\ fetch.kind = "xml" /\ fetch.resume /\ fetch.pc = "returned"
    /\ fetch.status = 206 /\ fetch.written # <<>>
    /\ output_file = Resource
    /\ fetch.fed = <<>> /\ ~fetch.json

\* C35: when a protocol handler called for a frame throws, only the
\* handling of that frame ends: the session is not disconnected, no
\* reconnect is scheduled, its read is armed again, and no other session,
\* the connection table and the handler table are not touched.
C35_Step ==
    (cl_event' # cl_event /\ cl_event'.op = "read"
     /\ cl_event'.res = "handler_threw") =>
        LET c == cl_event'.c
        IN  /\ cl_event'.h # NoHandler
            /\ cl_event'.h = handlers_[cl_event'.id]
            /\ cl[c].link = "up" /\ cl[c].reads = 1 /\ cl[c].timers = 0
            /\ cl' = cl
            /\ connections_' = connections_ /\ handlers_' = handlers_

C35_Threw ==
    (cl_event.op = "read" /\ cl_event.res = "handler_threw") =>
        LET c == cl_event.c
        IN  /\ cl[c].reads <= 1
            /\ cl[c].link = "up" => cl[c].reads = 1

C35_HandlerFailureContained == []C35_Threw /\ [][C35_Step]_vars

\* a handler threw on one session while another session is connected; both
\* go on reading
C35_Witness ==
    /\ cl_event.op = "read" /\ cl_event.res = "handler_threw"
    /\ cl[cl_event.c].link = "up" /\ cl[cl_event.c].reads = 1
    /\ cl[cl_event.c].timers = 0
    /\ \E d \in Clients \ {cl_event.c} :
          cl[d].link = "up" /\ cl[d].reads = 1

\* C38: the value captured and the arguments of the asset callback are the
\* same however the text run is cut into handleData calls: once the whole
\* run is fed, the handler is in the state one call with the whole run
\* leaves it in.
C38_Whole == onCharacterData(ChunkStart, chunks.text)

C38_SplitIndependent ==
    chunks.pos = Len(chunks.text) =>
        /\ chunks.h.root_ = C38_Whole.root_
        /\ chunks.h.calls = C38_Whole.calls

=============================================================================
